---- MODULE Spec2Model ----
(***************************************************************************)
(* aisdi::Vector and aisdi::LinkedList (src/src/Vector.h,                  *)
(* src/src/LinkedList.h) and the benchmark driver (src/src/main.cpp).      *)
(*                                                                         *)
(* Memory is modelled explicitly.  A Vector owns a buffer of the buffer    *)
(* heap `mem`; a pointer into a buffer is a record [buf, off].  A          *)
(* LinkedList owns nodes of the node heap `heap`, linked by prev/next.     *)
(* An access through a null, freed or out-of-range pointer is undefined    *)
(* behaviour: the operation records it in the `ub` flag of the world it    *)
(* returns, and the action that ran it then either aborts the process or   *)
(* lets it continue with the access lost (a read yielding Garbage).        *)
(*                                                                         *)
(* Every container operation is an operator from a world (the objects and  *)
(* their heap) to a result [W, exc, ret]: the world after the call, the    *)
(* exception thrown ("none" when the call returned) and the value          *)
(* returned.                                                               *)
(***************************************************************************)
EXTENDS Integers, Sequences, FiniteSets, TLC

VARIABLES
    kind,       \* the Collection the driver is instantiated with: "vector" | "list"
    vec,        \* the Vector objects, by name
    mem,        \* the heap of Vector buffers
    list,       \* the LinkedList objects, by name
    heap,       \* the heap of list nodes
    status,     \* "run" | "ub" (undefined behaviour happened, process went on) | "crashed"
    last,       \* the call made last: its arguments, its outcome, what held before it
    pc,         \* main.cpp: the benchmark being run
    n,          \* main.cpp: repeatCount
    i,          \* main.cpp: the loop counter of testAppend / testPrepend
    cur,        \* the cursor the driver works with
    mark        \* a second cursor the driver keeps: an end() taken earlier, or the
                \* cursor a post-increment or post-decrement returned

vars == <<kind, vec, mem, list, heap, status, last, pc, n, i, cur, mark>>

----------------------------------------------------------------------------
(* Bounds of the model *)

\* longest container of the single-object specification
MaxLen == 3
\* largest d of it + d and it - d
MaxOffset == 2
\* longest container of the two-object specifications
MaxPairLen == 2
\* largest explicit initialCapacity handed to Vector(size_type)
MaxInitCap == 2
\* largest repeatCount handed to main
MaxRepeat == 32

Values == {1, 2}
Objs == {"a", "b"}

(* Program constants *)
DEFAULT_INITIAL_CAPACITY == 30
Null == 0
\* the indeterminate content of a slot of new Type[n] that was never written
Uninit == -1
\* what a read through an invalid pointer yields
Garbage == -2

----------------------------------------------------------------------------
(* Vector: memory *)

Ptr(b, o) == [buf |-> b, off |-> o]

\* the address new Type[capacity] returns: the lowest one not allocated
NewBuf(m) ==
    CHOOSE b \in 1..(Cardinality(DOMAIN m) + 1) :
        b \notin DOMAIN m /\ \A c \in 1..(b - 1) : c \in DOMAIN m

NewArray(capacity) == [cells |-> [k \in 1..capacity |-> Uninit]]

\* m with buffer b allocated as a
AllocBuf(m, b, a) == (b :> a) @@ m

\* m with buffer b freed
FreeBuf(m, b) == [c \in DOMAIN m \ {b} |-> m[c]]

\* p points at a slot of a live buffer
VValid(W, p) ==
    /\ p.buf \in DOMAIN W.mem
    /\ p.off >= 0
    /\ p.off < Len(W.mem[p.buf].cells)

\* *p
VRead(W, p) == IF VValid(W, p) THEN W.mem[p.buf].cells[p.off + 1] ELSE Garbage

\* *p = v
VWrite(W, p, v) ==
    IF VValid(W, p)
    THEN [W EXCEPT !.mem[p.buf].cells[p.off + 1] = v]
    ELSE [W EXCEPT !.ub = TRUE]

\* *dst = *src
VCopyCell(W, dst, src) ==
    LET W1 == IF VValid(W, src) THEN W ELSE [W EXCEPT !.ub = TRUE]
    IN  VWrite(W1, dst, VRead(W, src))

\* delete [] b
VDeleteArray(W, b) ==
    IF b = Null THEN W
    ELSE IF b \in DOMAIN W.mem THEN [W EXCEPT !.mem = FreeBuf(@, b)]
    ELSE [W EXCEPT !.ub = TRUE]

\* &elements[k]
Elem(W, x, k) == Ptr(W.vec[x].elements, k)

----------------------------------------------------------------------------
(* Vector::ConstIterator *)

VIt(p, x, t) == [cur |-> p, coll |-> x, type |-> t]

NoVIt == VIt(Ptr(Null, 0), "a", "END")

NoVec == [state |-> "absent", elements |-> Null, size |-> 0, capacity |-> 0,
          pastTheEnd |-> NoVIt]

VisEnd(it) == it.type = "END"

VisBegin(it) == it.type = "BEGIN"

VmarkEnd(it) == [it EXCEPT !.type = "END"]

\* a faulty markBegin that C18 tells from the code: the tag is left as it is
VmarkBegin_Keep(it) == it

VmarkBegin(it) == [it EXCEPT !.type = "BEGIN"]

VmarkRegular(it) == [it EXCEPT !.type = "REGULAR"]

\* p points into its array or one past its last slot
VInArray(W, p) ==
    /\ p.buf \in DOMAIN W.mem
    /\ p.off >= 0
    /\ p.off <= Len(W.mem[p.buf].cells)

\* currentElement - collection->elements
VcalculateIndex(W, it) == it.cur.off

\* the two pointers of a subtraction belong to the same array
VSameArray(W, it) == it.cur.buf = W.vec[it.coll].elements

\* a faulty operator== that C19 tells from the code: the tags are not looked at
VitEq_PositionsOnly(a, b) == a.cur = b.cur

\* operator==
VitEq(a, b) ==
    IF VisEnd(a) /\ VisEnd(b) THEN TRUE ELSE a.cur = b.cur

VitNeq(a, b) == ~VitEq(a, b)

\* operator*
VitDeref(W, it) ==
    IF VisEnd(it) THEN [exc |-> "out_of_range", val |-> Garbage, ub |-> FALSE]
    ELSE [exc |-> "none", val |-> VRead(W, it.cur), ub |-> ~VValid(W, it.cur)]

\* operator++
VitInc(W, it) ==
    IF VisEnd(it) THEN [exc |-> "out_of_range", it |-> it, ub |-> FALSE]
    ELSE LET it1 == [it EXCEPT !.cur.off = @ + 1]
             it2 == IF VisBegin(it1) THEN VmarkRegular(it1) ELSE it1
             idx == VcalculateIndex(W, it2)
             \* (size_type)(currentElement - collection->elements) >= getSize():
             \* a negative difference converts to a huge unsigned one
             it3 == IF idx < 0 \/ idx >= W.vec[it.coll].size
                    THEN VmarkEnd(it2) ELSE it2
             \* currentElement++ past the array, or a difference of pointers of
             \* two arrays, is undefined
         IN  [exc |-> "none", it |-> it3,
              ub |-> ~VInArray(W, it1.cur) \/ ~VSameArray(W, it1)]

\* operator--
VitDec(W, it) ==
    IF VisBegin(it) THEN [exc |-> "out_of_range", it |-> it, ub |-> FALSE]
    ELSE LET it1 == [it EXCEPT !.cur.off = @ - 1]
             it2 == IF VisEnd(it1) THEN VmarkRegular(it1) ELSE it1
             it3 == IF it2.cur = Elem(W, it.coll, 0) THEN VmarkBegin(it2) ELSE it2
             \* currentElement-- before the array is undefined
         IN  [exc |-> "none", it |-> it3, ub |-> ~VInArray(W, it1.cur)]

\* operator++(int): the cursor moves, a copy of the old one is returned
VitPostInc(W, it) ==
    LET r == VitInc(W, it)
    IN  [exc |-> r.exc, it |-> r.it, old |-> it, ub |-> r.ub]

\* operator--(int)
VitPostDec(W, it) ==
    LET r == VitDec(W, it)
    IN  [exc |-> r.exc, it |-> r.it, old |-> it, ub |-> r.ub]

\* Iterator::operator++(int): ConstIterator::operator++() on a copy kept aside
VIteratorPostInc(W, it) ==
    LET r == VitInc(W, it)
    IN  [exc |-> r.exc, it |-> r.it, old |-> it, ub |-> r.ub]

\* Iterator::operator--(int)
VIteratorPostDec(W, it) ==
    LET r == VitDec(W, it)
    IN  [exc |-> r.exc, it |-> r.it, old |-> it, ub |-> r.ub]

\* operator+
VitPlus(it, d) == VIt(Ptr(it.cur.buf, it.cur.off + d), it.coll, "REGULAR")

\* operator-
VitMinus(it, d) == VIt(Ptr(it.cur.buf, it.cur.off - d), it.coll, "REGULAR")

----------------------------------------------------------------------------
(* Vector: begin / end *)

VisEmpty(W, x) == W.vec[x].size = 0

VgetSize(W, x) == W.vec[x].size

VgetCapacity(W, x) == W.vec[x].capacity

VcreateBegin(W, x) == VIt(Elem(W, x, 0), x, "BEGIN")

VcreateBeginAsEnd(W, x) == VmarkEnd(VcreateBegin(W, x))

Vbegin(W, x) == VcreateBegin(W, x)

\* a faulty preparePastTheEnd that C14 tells from the code: the cached cursor
\* stays where it was
VpreparePastTheEnd_Stale(W, x) == W

\* preparePastTheEnd: the cached cursor is moved, and a copy of it returned
VpreparePastTheEnd(W, x) ==
    [W EXCEPT !.vec[x].pastTheEnd.cur = Elem(W, x, W.vec[x].size)]

\* end(): the world (the cache may have moved) and the cursor
Vend(W, x) ==
    IF VisEmpty(W, x)
    THEN [W |-> W, it |-> VcreateBeginAsEnd(W, x)]
    ELSE LET W1 == VpreparePastTheEnd(W, x)
         IN  [W |-> W1, it |-> W1.vec[x].pastTheEnd]

----------------------------------------------------------------------------
(* Vector: private helpers *)

Ok(W) == [W |-> W, exc |-> "none", ret |-> Null]

Ret(W, v) == [W |-> W, exc |-> "none", ret |-> v]

Throw(W, e) == [W |-> W, exc |-> e, ret |-> Null]

RECURSIVE VCopyLoop(_, _, _, _)
\* for (i = k; i < size; i++) elements[i] = oldElements[i]
VCopyLoop(W, x, oldElements, k) ==
    IF k < W.vec[x].size
    THEN VCopyLoop(VCopyCell(W, Elem(W, x, k), Ptr(oldElements, k)), x, oldElements, k + 1)
    ELSE W

\* reallocateMemory(size_type newCapacity)
VreallocateMemoryTo(W, x, newCapacity) ==
    LET oldElements == W.vec[x].elements
        b  == NewBuf(W.mem)
        W1 == [W EXCEPT !.vec[x].capacity = newCapacity,
                        !.vec[x].elements = b,
                        !.mem = AllocBuf(@, b, NewArray(newCapacity))]
        W2 == VCopyLoop(W1, x, oldElements, 0)
    IN  VDeleteArray(W2, oldElements)

\* reallocateMemory()
VreallocateMemory(W, x) == VreallocateMemoryTo(W, x, W.vec[x].capacity * 2)

\* a faulty reallocateMemoryIfNeeded that C1 tells from the code: it grows the
\* buffer one append too late (size > capacity)
VreallocateMemoryIfNeeded_Late(W, x) ==
    IF W.vec[x].size > W.vec[x].capacity THEN VreallocateMemory(W, x) ELSE W

VreallocateMemoryIfNeeded(W, x) ==
    IF W.vec[x].size + 1 > W.vec[x].capacity THEN VreallocateMemory(W, x) ELSE W

RECURSIVE VShiftRightLoop(_, _, _, _)
\* for (i = k; i > beginIndex; i--) elements[i] = elements[i-1]
\* (i starts at size and falls, so i <= size in every turn; reading size here
\* has W evaluated turn by turn)
VShiftRightLoop(W, x, k, beginIndex) ==
    IF k > beginIndex /\ k <= W.vec[x].size
    THEN VShiftRightLoop(VCopyCell(W, Elem(W, x, k), Elem(W, x, k - 1)), x, k - 1, beginIndex)
    ELSE W

VshiftElementsToRightFrom(W, x, beginIndex) ==
    VShiftRightLoop(W, x, W.vec[x].size, beginIndex)

RECURSIVE VShiftLeftLoop(_, _, _)
\* for (i = k; i < size-1; i++) elements[i] = elements[i+1]
VShiftLeftLoop(W, x, k) ==
    IF k < W.vec[x].size - 1
    THEN VShiftLeftLoop(VCopyCell(W, Elem(W, x, k), Elem(W, x, k + 1)), x, k + 1)
    ELSE W

\* size-1 is unsigned: with size = 0 the loop bound is SIZE_MAX and the loop
\* runs off the buffer
VshiftElementsToLeftUpTo(W, x, consumedElementIndex) ==
    IF W.vec[x].size = 0 THEN [W EXCEPT !.ub = TRUE]
    ELSE VShiftLeftLoop(W, x, consumedElementIndex)

VSetSize(W, x, s) == [W EXCEPT !.vec[x].size = s]

----------------------------------------------------------------------------
(* Vector: public operations *)

\* Vector(size_type initialCapacity)
VectorCtor(W, x, initialCapacity) ==
    LET b == NewBuf(W.mem)
    IN  [W EXCEPT !.mem = AllocBuf(@, b, NewArray(initialCapacity)),
                  !.vec[x] = [state |-> "live", elements |-> b, size |-> 0,
                              capacity |-> initialCapacity,
                              pastTheEnd |-> VIt(Ptr(b, 0), x, "END")]]

Vappend(W, x, item) ==
    LET W1 == VreallocateMemoryIfNeeded(W, x)
        W2 == VWrite(W1, Elem(W1, x, W1.vec[x].size), item)
    IN  VSetSize(W2, x, W2.vec[x].size + 1)

Vprepend(W, x, item) ==
    LET W1 == VreallocateMemoryIfNeeded(W, x)
        W2 == VshiftElementsToRightFrom(W1, x, 0)
        W3 == VWrite(W2, Elem(W2, x, 0), item)
    IN  VSetSize(W3, x, W3.vec[x].size + 1)

\* a faulty insert that C7 tells from the code: the index is calculated after
\* the reallocation, from a cursor into the buffer that was freed
Vinsert_IndexAfterReallocation(W, x, insertPosition, item) ==
    LET W1 == VreallocateMemoryIfNeeded(W, x)
        insertIndex == VcalculateIndex(W1, insertPosition)
        W0 == IF VSameArray(W1, insertPosition) THEN W1 ELSE [W1 EXCEPT !.ub = TRUE]
        W2 == VshiftElementsToRightFrom(W0, x, insertIndex)
        W3 == VWrite(W2, Elem(W2, x, insertIndex), item)
    IN  VSetSize(W3, x, W3.vec[x].size + 1)

Vinsert(W, x, insertPosition, item) ==
    LET insertIndex == VcalculateIndex(W, insertPosition)
        W0 == IF VSameArray(W, insertPosition) THEN W ELSE [W EXCEPT !.ub = TRUE]
        W1 == VreallocateMemoryIfNeeded(W0, x)
        W2 == VshiftElementsToRightFrom(W1, x, insertIndex)
        W3 == VWrite(W2, Elem(W2, x, insertIndex), item)
    IN  VSetSize(W3, x, W3.vec[x].size + 1)

\* a faulty popFirst that C3 tells from the code: the elements are not shifted
VpopFirst_NoShift(W, x) ==
    IF VisEmpty(W, x) THEN Throw(W, "logic_error")
    ELSE LET value == VRead(W, Elem(W, x, 0))
             W0 == IF VValid(W, Elem(W, x, 0)) THEN W ELSE [W EXCEPT !.ub = TRUE]
         IN  Ret(VSetSize(W0, x, W0.vec[x].size - 1), value)

VpopFirst(W, x) ==
    IF VisEmpty(W, x) THEN Throw(W, "logic_error")
    ELSE LET value == VRead(W, Elem(W, x, 0))
             W0 == IF VValid(W, Elem(W, x, 0)) THEN W ELSE [W EXCEPT !.ub = TRUE]
             W1 == VshiftElementsToLeftUpTo(W0, x, 0)
         IN  Ret(VSetSize(W1, x, W1.vec[x].size - 1), value)

VpopLast(W, x) ==
    IF VisEmpty(W, x) THEN Throw(W, "logic_error")
    ELSE LET p == Elem(W, x, W.vec[x].size - 1)
             value == VRead(W, p)
             W0 == IF VValid(W, p) THEN W ELSE [W EXCEPT !.ub = TRUE]
         IN  Ret(VSetSize(W0, x, W0.vec[x].size - 1), value)

\* throwIfIteratorEqaulsEnd tests the cursor's tag
VthrowIfIteratorEqaulsEnd(W, x, it) == VisEnd(it)

\* a faulty erase that C23 tells from the code: nothing is shifted, so the
\* last element is the one that goes
Verase_DropLast(W, x, position) ==
    IF VisEmpty(W, x) THEN Throw(W, "out_of_range")
    ELSE IF VthrowIfIteratorEqaulsEnd(W, x, position) THEN Throw(W, "out_of_range")
    ELSE Ok(VSetSize(W, x, W.vec[x].size - 1))

\* erase(position)
Verase(W, x, position) ==
    IF VisEmpty(W, x) THEN Throw(W, "out_of_range")
    ELSE IF VthrowIfIteratorEqaulsEnd(W, x, position) THEN Throw(W, "out_of_range")
    ELSE LET W0 == IF VSameArray(W, position) THEN W ELSE [W EXCEPT !.ub = TRUE]
             W1 == VshiftElementsToLeftUpTo(W0, x, VcalculateIndex(W0, position))
         IN  Ok(VSetSize(W1, x, W1.vec[x].size - 1))

RECURSIVE VEraseLoop(_, _, _, _)
\* for (i, j; i < size; i++, j++) elements[i] = elements[j]
VEraseLoop(W, x, k, j) ==
    IF k < W.vec[x].size
    THEN VEraseLoop(VCopyCell(W, Elem(W, x, k), Elem(W, x, j)), x, k + 1, j + 1)
    ELSE W

\* a faulty range erase that C6 tells from the code: the size is lowered and
\* the tail is not moved down
VeraseRange_SizeOnly(W, x, firstIncluded, lastExcluded) ==
    IF VitEq(firstIncluded, lastExcluded) THEN Ok(W)
    ELSE Ok(VSetSize(W, x, W.vec[x].size
                - (VcalculateIndex(W, lastExcluded) - VcalculateIndex(W, firstIncluded))))

\* erase(firstIncluded, lastExcluded)
VeraseRange(W, x, firstIncluded, lastExcluded) ==
    IF VitEq(firstIncluded, lastExcluded) THEN Ok(W)
    ELSE LET firstIncludeIndex == VcalculateIndex(W, firstIncluded)
             lastExcludedIndex == VcalculateIndex(W, lastExcluded)
             W0 == IF VSameArray(W, firstIncluded) /\ VSameArray(W, lastExcluded)
                   THEN W ELSE [W EXCEPT !.ub = TRUE]
             W1 == VSetSize(W0, x, W0.vec[x].size - (lastExcludedIndex - firstIncludeIndex))
         IN  Ok(VEraseLoop(W1, x, firstIncludeIndex, lastExcludedIndex))

RECURSIVE VCopyFromLoop(_, _, _, _)
\* for (auto& el : collection) append(el): the body of the range-for
VCopyFromLoop(W, x, it, endIt) ==
    IF VitEq(it, endIt) THEN W
    ELSE LET d  == VitDeref(W, it)
             W0 == IF d.ub \/ d.exc # "none" THEN [W EXCEPT !.ub = TRUE] ELSE W
             W1 == Vappend(W0, x, d.val)
         IN  VCopyFromLoop(W1, x, VitInc(W1, it).it, endIt)

\* copyFromAndAppend(collection): begin() and end() of the source are taken once
VcopyFromAndAppend(W, x, y) ==
    LET e == Vend(W, y)
    IN  VCopyFromLoop(e.W, x, Vbegin(e.W, y), e.it)

VcopyFromAndTruncate(W, x, y) == VcopyFromAndAppend(VSetSize(W, x, 0), x, y)

VmoveFrom(W, x, y) ==
    [W EXCEPT !.vec[x].elements = W.vec[y].elements,
              !.vec[x].size = W.vec[y].size,
              !.vec[x].capacity = W.vec[y].capacity,
              !.vec[y].elements = Null,
              !.vec[y].size = 0]

\* a faulty copy constructor that C8 tells from the code: the copy takes the
\* source's buffer instead of filling one of its own
VectorCopyCtor_Shallow(W, x, y) ==
    [W EXCEPT !.vec[x] = [W.vec[y] EXCEPT !.pastTheEnd = VIt(Ptr(W.vec[y].elements, 0), x, "END")]]

\* Vector(const Vector &other)
VectorCopyCtor(W, x, y) ==
    VcopyFromAndAppend(VectorCtor(W, x, VgetCapacity(W, y)), x, y)

RECURSIVE VInitListLoop(_, _, _, _)
\* for (auto& el : l) append(el), l an initializer_list
VInitListLoop(W, x, l, k) ==
    IF k > Len(l) THEN W
    ELSE VInitListLoop(Vappend(W, x, l[k]), x, l, k + 1)

\* Vector(std::initializer_list<Type> l)
VectorInitList(W, x, l) == VInitListLoop(VectorCtor(W, x, Len(l)), x, l, 1)

\* Vector(Vector &&other): elements takes its default member initializer
VectorMoveCtor(W, x, y) ==
    LET W1 == [W EXCEPT !.vec[x] = [state |-> "live", elements |-> Null, size |-> 0,
                                    capacity |-> 0,
                                    pastTheEnd |-> VIt(Ptr(Null, 0), x, "END")]]
    IN  VmoveFrom(W1, x, y)

\* a faulty freeMemoryIfAllocated that C16 tells from the code: the buffer is
\* not deleted
VfreeMemoryIfAllocated_Leak(W, x) == W

\* freeMemoryIfAllocated
VfreeMemoryIfAllocated(W, x) ==
    IF W.vec[x].elements # Null THEN VDeleteArray(W, W.vec[x].elements) ELSE W

\* ~Vector()
VectorDtor(W, x) == [VfreeMemoryIfAllocated(W, x) EXCEPT !.vec[x] = NoVec]

\* operator=(const Vector &other)
VcopyAssign(W, x, y) ==
    IF x = y THEN W
    ELSE LET W1 == IF W.vec[x].capacity < VgetSize(W, y)
                   THEN VreallocateMemoryTo(W, x, VgetSize(W, y)) ELSE W
         IN  VcopyFromAndTruncate(W1, x, y)

\* operator=(Vector &&other)
VmoveAssign(W, x, y) ==
    LET W1 == IF W.vec[x].elements # Null THEN VDeleteArray(W, W.vec[x].elements) ELSE W
    IN  VmoveFrom(W1, x, y)

RECURSIVE VTraverseLoop(_, _, _, _)
VTraverseLoop(W, it, endIt, fuel) ==
    IF VitEq(it, endIt) \/ fuel = 0 THEN <<>>
    ELSE <<VitDeref(W, it).val>> \o VTraverseLoop(W, VitInc(W, it).it, endIt, fuel - 1)

\* the values a forward traversal from begin() to end() visits
VTraverse(W, x) ==
    LET e == Vend(W, x)
    IN  VTraverseLoop(e.W, Vbegin(e.W, x), e.it, W.vec[x].size + 1)

----------------------------------------------------------------------------
(* LinkedList: memory *)

\* the address operator new returns: the lowest one not allocated
NewNode(h) ==
    CHOOSE m \in 1..(Cardinality(DOMAIN h) + 1) :
        m \notin DOMAIN h /\ \A c \in 1..(m - 1) : c \in DOMAIN h

\* h with node m allocated as nd
AllocNode(h, m, nd) == (m :> nd) @@ h

\* h with node m freed
FreeNode(h, m) == [c \in DOMAIN h \ {m} |-> h[c]]

\* m points at a node that is allocated
LLive(W, m) == m \in DOMAIN W.heap

\* more turns than a loop over the nodes of a well-formed chain takes
LFuel(W) == Cardinality(DOMAIN W.heap) + 1

LChk(W, m) == IF LLive(W, m) THEN W ELSE [W EXCEPT !.ub = TRUE]

\* m->next, m->prev
LNext(W, m) == IF LLive(W, m) THEN W.heap[m].next ELSE Null

LPrev(W, m) == IF LLive(W, m) THEN W.heap[m].prev ELSE Null

\* m->next = v, m->prev = v
LSetNext(W, m, v) == IF LLive(W, m) THEN [W EXCEPT !.heap[m].next = v] ELSE [W EXCEPT !.ub = TRUE]

LSetPrev(W, m, v) == IF LLive(W, m) THEN [W EXCEPT !.heap[m].prev = v] ELSE [W EXCEPT !.ub = TRUE]

\* dynamic_cast<ValueNode*>(m) is null for a guard
LIsValueNode(W, m) == LLive(W, m) /\ W.heap[m].kind = "value"

\* dynamic_cast<ValueNode*>(m)->value
LValue(W, m) == IF LIsValueNode(W, m) THEN W.heap[m].value ELSE Garbage

\* delete m
LDelete(W, m) ==
    IF m = Null THEN W
    ELSE IF LLive(W, m) THEN [W EXCEPT !.heap = FreeNode(@, m)]
    ELSE [W EXCEPT !.ub = TRUE]

\* new Node()
LNewGuard(W) ==
    [W EXCEPT !.heap = AllocNode(@, NewNode(@),
                           [kind |-> "guard", prev |-> Null, next |-> Null, value |-> Null])]

\* new ValueNode(item)
LNewValueNode(W, item) ==
    [W EXCEPT !.heap = AllocNode(@, NewNode(@),
                           [kind |-> "value", prev |-> Null, next |-> Null, value |-> item])]

----------------------------------------------------------------------------
(* LinkedList::ConstIterator *)

LIt(m, x) == [node |-> m, coll |-> x]

NoList == [state |-> "absent", firstGuard |-> Null, lastGuard |-> Null, size |-> 0,
           endIterator |-> LIt(Null, "a")]

LisEmpty(W, x) == W.list[x].size = 0

LgetSize(W, x) == W.list[x].size

LgetFirst(W, x) == LNext(W, W.list[x].firstGuard)

LgetLast(W, x) == LPrev(W, W.list[x].lastGuard)

Lend(W, x) == W.list[x].endIterator

Lbegin(W, x) == IF LisEmpty(W, x) THEN W.list[x].endIterator ELSE LIt(LgetFirst(W, x), x)

LitEq(a, b) == a.node = b.node

LitNeq(a, b) == ~LitEq(a, b)

LthrowIfEnd(W, it) == LitEq(it, Lend(W, it.coll))

\* a faulty throwIfBegin that C15 tells from the code: the cursor is compared
\* with the first guard, where no cursor obtained from begin() ever is
LthrowIfBegin_AtGuard(W, it) == it.node = W.list[it.coll].firstGuard

LthrowIfBegin(W, it) == LitEq(it, Lbegin(W, it.coll))

\* operator*
LitDeref(W, it) ==
    IF LthrowIfEnd(W, it) THEN [exc |-> "out_of_range", val |-> Garbage, ub |-> FALSE]
    ELSE [exc |-> "none", val |-> LValue(W, it.node), ub |-> ~LIsValueNode(W, it.node)]

\* operator++
LitInc(W, it) ==
    IF LthrowIfEnd(W, it) THEN [exc |-> "out_of_range", it |-> it, ub |-> FALSE]
    ELSE [exc |-> "none", it |-> LIt(LNext(W, it.node), it.coll), ub |-> ~LLive(W, it.node)]

\* operator--
LitDec(W, it) ==
    IF LthrowIfBegin(W, it) THEN [exc |-> "out_of_range", it |-> it, ub |-> FALSE]
    ELSE [exc |-> "none", it |-> LIt(LPrev(W, it.node), it.coll), ub |-> ~LLive(W, it.node)]

\* operator++(int): the cursor moves, a copy of the old one is returned
LitPostInc(W, it) ==
    LET r == LitInc(W, it)
    IN  [exc |-> r.exc, it |-> r.it, old |-> it, ub |-> r.ub]

\* operator--(int) of ConstIterator: its body calls operator++()
LitPostDec(W, it) ==
    LET r == LitInc(W, it)
    IN  [exc |-> r.exc, it |-> r.it, old |-> it, ub |-> r.ub]

\* Iterator::operator++(int)
LIteratorPostInc(W, it) ==
    LET r == LitInc(W, it)
    IN  [exc |-> r.exc, it |-> r.it, old |-> it, ub |-> r.ub]

\* Iterator::operator--(int): ConstIterator::operator--()
LIteratorPostDec(W, it) ==
    LET r == LitDec(W, it)
    IN  [exc |-> r.exc, it |-> r.it, old |-> it, ub |-> r.ub]

RECURSIVE LitPlusLoop(_, _, _)
LitPlusLoop(W, m, d) ==
    IF d <= 0 THEN [node |-> m, ub |-> FALSE]
    ELSE LET r == LitPlusLoop(W, LNext(W, m), d - 1)
         IN  [node |-> r.node, ub |-> r.ub \/ ~LLive(W, m)]

\* operator+: d times node = node->next, unchecked
LitPlus(W, it, d) ==
    LET r == LitPlusLoop(W, it.node, d)
    IN  [it |-> LIt(r.node, it.coll), ub |-> r.ub]

RECURSIVE LitMinusLoop(_, _, _)
LitMinusLoop(W, m, d) ==
    IF d <= 0 THEN [node |-> m, ub |-> FALSE]
    ELSE LET r == LitMinusLoop(W, LPrev(W, m), d - 1)
         IN  [node |-> r.node, ub |-> r.ub \/ ~LLive(W, m)]

\* operator-: d times node = node->prev, unchecked
LitMinus(W, it, d) ==
    LET r == LitMinusLoop(W, it.node, d)
    IN  [it |-> LIt(r.node, it.coll), ub |-> r.ub]

----------------------------------------------------------------------------
(* LinkedList: private helpers *)

LcollapseNodes(W, left, right) == LSetPrev(LSetNext(W, left, right), right, left)

\* a faulty insertBetween that C13 tells from the code: right->prev is not set
LinsertBetween_NoBackLink(W, left, right, nodeToInsert) ==
    LET W1 == LSetNext(W, left, nodeToInsert)
        W2 == LSetPrev(W1, nodeToInsert, left)
    IN  LSetNext(W2, nodeToInsert, right)

LinsertBetween(W, left, right, nodeToInsert) ==
    LET W1 == LSetNext(W, left, nodeToInsert)
        W2 == LSetPrev(W1, nodeToInsert, left)
        W3 == LSetNext(W2, nodeToInsert, right)
    IN  LSetPrev(W3, right, nodeToInsert)

LSetSize(W, x, s) == [W EXCEPT !.list[x].size = s]

LcollapseList(W, x) ==
    LSetSize(LcollapseNodes(W, W.list[x].firstGuard, W.list[x].lastGuard), x, 0)

LdeleteNode(W, x, nodeToDestroy) ==
    LET W1 == LDelete(W, nodeToDestroy)
    IN  LSetSize(W1, x, W1.list[x].size - 1)

RECURSIVE LDeleteListLoop(_, _, _, _)
\* for (node = getFirst(); node != lastGuard; ) { old = node; node = node->next; delete old; }
LDeleteListLoop(W, x, node, fuel) ==
    IF node = W.list[x].lastGuard THEN W
    ELSE IF fuel = 0 \/ ~LLive(W, node) THEN [W EXCEPT !.ub = TRUE]
    ELSE LDeleteListLoop(LDelete(W, node), x, LNext(W, node), fuel - 1)

LdeleteList(W, x) ==
    IF /\ LNext(W, W.list[x].firstGuard) = W.list[x].lastGuard
       /\ LPrev(W, W.list[x].lastGuard) = W.list[x].firstGuard
    THEN W
    ELSE LcollapseList(LDeleteListLoop(W, x, LgetFirst(W, x), LFuel(W)), x)

RECURSIVE LDeleteRangeLoop(_, _, _, _, _)
\* for (it = firstIncluded; it != lastExcluded;) { node = it.node; it++; deletedCount++; delete node; }
LDeleteRangeLoop(W, it, lastExcluded, deletedCount, fuel) ==
    IF LitEq(it, lastExcluded) THEN [W |-> W, exc |-> "none", count |-> deletedCount]
    ELSE IF fuel = 0 THEN [W |-> [W EXCEPT !.ub = TRUE], exc |-> "none", count |-> deletedCount]
    ELSE LET inc == LitInc(W, it)
         IN  IF inc.exc # "none" THEN [W |-> W, exc |-> inc.exc, count |-> deletedCount]
             ELSE LDeleteRangeLoop(LDelete(IF inc.ub THEN [W EXCEPT !.ub = TRUE] ELSE W, it.node),
                                   inc.it, lastExcluded, deletedCount + 1, fuel - 1)

\* deleteRange: size is decreased after the loop, and not at all when it++ throws
LdeleteRange(W, x, firstIncluded, lastExcluded) ==
    LET r == LDeleteRangeLoop(W, firstIncluded, lastExcluded, 0, LFuel(W))
    IN  IF r.exc # "none" THEN Throw(r.W, r.exc)
        ELSE Ok(LSetSize(r.W, x, r.W.list[x].size - r.count))

----------------------------------------------------------------------------
(* LinkedList: public operations *)

\* LinkedList()
LinkedListCtor(W, x) ==
    LET W1 == LNewGuard(W)
        fg == NewNode(W.heap)
        W2 == LNewGuard(W1)
        lg == NewNode(W1.heap)
        W3 == [W2 EXCEPT !.list[x] = [state |-> "live", firstGuard |-> fg, lastGuard |-> lg,
                                      size |-> 0, endIterator |-> LIt(lg, x)]]
    IN  LcollapseNodes(W3, fg, lg)

Lappend(W, x, item) ==
    LET nodeToAppend == NewNode(W.heap)
        W1 == LNewValueNode(W, item)
        W2 == LinsertBetween(W1, LgetLast(W1, x), W1.list[x].lastGuard, nodeToAppend)
    IN  LSetSize(W2, x, W2.list[x].size + 1)

\* a faulty prepend that C2 tells from the code: the node goes in before lastGuard
Lprepend_AtBack(W, x, item) ==
    LET nodeToPrepend == NewNode(W.heap)
        W1 == LNewValueNode(W, item)
        W2 == LinsertBetween(W1, LgetLast(W1, x), W1.list[x].lastGuard, nodeToPrepend)
    IN  LSetSize(W2, x, W2.list[x].size + 1)

Lprepend(W, x, item) ==
    LET nodeToPrepend == NewNode(W.heap)
        W1 == LNewValueNode(W, item)
        W2 == LinsertBetween(W1, W1.list[x].firstGuard, LgetFirst(W1, x), nodeToPrepend)
    IN  LSetSize(W2, x, W2.list[x].size + 1)

Linsert(W, x, insertPosition, item) ==
    LET nodeToInsert == NewNode(W.heap)
        W1 == LNewValueNode(W, item)
        right == insertPosition.node
        left == LPrev(W1, right)
        W2 == LinsertBetween(LChk(W1, right), left, right, nodeToInsert)
    IN  LSetSize(W2, x, W2.list[x].size + 1)

LpopFirst(W, x) ==
    IF LisEmpty(W, x) THEN Throw(W, "logic_error")
    ELSE LET first == LgetFirst(W, x)
             W0 == IF LIsValueNode(W, first) THEN W ELSE [W EXCEPT !.ub = TRUE]
             result == LValue(W, first)
             W1 == LcollapseNodes(W0, W0.list[x].firstGuard, LNext(W0, first))
         IN  Ret(LdeleteNode(W1, x, first), result)

\* a faulty popLast that C4 tells from the code: an empty list is not refused
LpopLast_Unchecked(W, x) ==
    LET lastNode == LgetLast(W, x)
        W0 == IF LIsValueNode(W, lastNode) THEN W ELSE [W EXCEPT !.ub = TRUE]
        result == LValue(W, lastNode)
        W1 == LcollapseNodes(W0, LPrev(W0, lastNode), W0.list[x].lastGuard)
    IN  Ret(LdeleteNode(W1, x, lastNode), result)

LpopLast(W, x) ==
    IF LisEmpty(W, x) THEN Throw(W, "logic_error")
    ELSE LET lastNode == LgetLast(W, x)
             W0 == IF LIsValueNode(W, lastNode) THEN W ELSE [W EXCEPT !.ub = TRUE]
             result == LValue(W, lastNode)
             W1 == LcollapseNodes(W0, LPrev(W0, lastNode), W0.list[x].lastGuard)
         IN  Ret(LdeleteNode(W1, x, lastNode), result)

\* throwIfIteratorEqaulsEnd compares with endIterator
\* a faulty throwIfIteratorEqaulsEnd that C17 tells from the code: no cursor
\* is refused
LthrowIfIteratorEqaulsEnd_Never(W, x, it) == FALSE

LthrowIfIteratorEqaulsEnd(W, x, it) == LitEq(it, W.list[x].endIterator)

\* erase(possition)
Lerase(W, x, possition) ==
    IF LisEmpty(W, x) THEN Throw(W, "out_of_range")
    ELSE IF LthrowIfIteratorEqaulsEnd(W, x, possition) THEN Throw(W, "out_of_range")
    ELSE LET nodeToErase == possition.node
             W1 == LcollapseNodes(LChk(W, nodeToErase), LPrev(W, nodeToErase), LNext(W, nodeToErase))
         IN  Ok(LdeleteNode(W1, x, nodeToErase))

\* erase(firstIncluded, lastExcluded)
LeraseRange(W, x, firstIncluded, lastExcluded) ==
    LET left == LPrev(W, firstIncluded.node)
        right == lastExcluded.node
        W1 == LcollapseNodes(LChk(W, firstIncluded.node), left, right)
    IN  LdeleteRange(W1, x, firstIncluded, lastExcluded)

RECURSIVE LCopyFromLoop(_, _, _, _, _)
\* for (auto& el : collection) append(el): the body of the range-for
LCopyFromLoop(W, x, it, endIt, fuel) ==
    IF LitEq(it, endIt) THEN W
    ELSE IF fuel = 0 THEN [W EXCEPT !.ub = TRUE]
    ELSE LET d  == LitDeref(W, it)
             W0 == IF d.ub \/ d.exc # "none" THEN [W EXCEPT !.ub = TRUE] ELSE W
             W1 == Lappend(W0, x, d.val)
         IN  LCopyFromLoop(W1, x, LitInc(W1, it).it, endIt, fuel - 1)

LcopyFrom(W, x, y) == LCopyFromLoop(W, x, Lbegin(W, y), Lend(W, y), LFuel(W))

\* a faulty moveFrom that C9 tells from the code: the source is not collapsed
LmoveFrom_NoCollapse(W, x, y) ==
    LET W1 == LcollapseNodes(W, W.list[x].firstGuard, LgetFirst(W, y))
        W2 == LcollapseNodes(W1, LgetLast(W1, y), W1.list[x].lastGuard)
    IN  LSetSize(W2, x, W2.list[y].size)

LmoveFrom(W, x, y) ==
    LET W1 == LcollapseNodes(W, W.list[x].firstGuard, LgetFirst(W, y))
        W2 == LcollapseNodes(W1, LgetLast(W1, y), W1.list[x].lastGuard)
        W3 == LSetSize(W2, x, W2.list[y].size)
    IN  LcollapseList(W3, y)

\* LinkedList(const LinkedList &other)
LinkedListCopyCtor(W, x, y) == LcopyFrom(LinkedListCtor(W, x), x, y)

RECURSIVE LInitListLoop(_, _, _, _)
\* for (auto& el : l) append(el), l an initializer_list
LInitListLoop(W, x, l, k) ==
    IF k > Len(l) THEN W
    ELSE LInitListLoop(Lappend(W, x, l[k]), x, l, k + 1)

\* LinkedList(std::initializer_list<Type> l)
LinkedListInitList(W, x, l) == LInitListLoop(LinkedListCtor(W, x), x, l, 1)

\* LinkedList(LinkedList &&other)
LinkedListMoveCtor(W, x, y) == LmoveFrom(LinkedListCtor(W, x), x, y)

\* ~LinkedList()
LinkedListDtor(W, x) ==
    LET W1 == LdeleteList(W, x)
        W2 == LDelete(W1, W1.list[x].firstGuard)
        W3 == LDelete(W2, W2.list[x].lastGuard)
    IN  [W3 EXCEPT !.list[x] = NoList]

\* operator=(const LinkedList &other)
LcopyAssign(W, x, y) ==
    IF x = y THEN W
    ELSE LcopyFrom(IF ~LisEmpty(W, x) THEN LdeleteList(W, x) ELSE W, x, y)

\* operator=(LinkedList &&other)
LmoveAssign(W, x, y) ==
    LmoveFrom(IF ~LisEmpty(W, x) THEN LdeleteList(W, x) ELSE W, x, y)

RECURSIVE LTraverseLoop(_, _, _, _)
LTraverseLoop(W, it, endIt, fuel) ==
    IF LitEq(it, endIt) \/ fuel = 0 THEN <<>>
    ELSE <<LitDeref(W, it).val>> \o LTraverseLoop(W, LitInc(W, it).it, endIt, fuel - 1)

\* the values a forward traversal from begin() to end() visits
LTraverse(W, x) == LTraverseLoop(W, Lbegin(W, x), Lend(W, x), LFuel(W))

----------------------------------------------------------------------------
(* The driver: what it can observe of a container, and the cursors it makes *)

VW == [vec |-> vec, mem |-> mem, ub |-> FALSE]

LW == [list |-> list, heap |-> heap, ub |-> FALSE]

Exists(x) == IF kind = "vector" THEN vec[x].state = "live" ELSE list[x].state = "live"

\* getSize()
Size(x) == IF kind = "vector" THEN VgetSize(VW, x) ELSE LgetSize(LW, x)

\* getCapacity(), 0 for a list
Capacity(x) == IF kind = "vector" THEN VgetCapacity(VW, x) ELSE 0

\* the forward traversal from begin() to end()
Contents(x) == IF kind = "vector" THEN VTraverse(VW, x) ELSE LTraverse(LW, x)

\* begin() == end()
BeginIsEnd(x) ==
    IF kind = "vector" THEN VitEq(Vbegin(VW, x), Vend(VW, x).it)
    ELSE LitEq(Lbegin(LW, x), Lend(LW, x))

RECURSIVE VStepsLoop(_, _, _)
\* k times ++it
VStepsLoop(W, it, k) ==
    IF k = 0 THEN [exc |-> "none", it |-> it]
    ELSE LET r == VitInc(W, it)
         IN  IF r.exc # "none" THEN r ELSE VStepsLoop(W, r.it, k - 1)

\* a cursor of Vector x: end(), begin() moved by k times ++, or begin() + k
VCursor(W, x, how, k) ==
    CASE how = "end"    -> [W |-> Vend(W, x).W, exc |-> "none", it |-> Vend(W, x).it]
      [] how = "steps"  -> [W |-> W, exc |-> VStepsLoop(W, Vbegin(W, x), k).exc,
                            it |-> VStepsLoop(W, Vbegin(W, x), k).it]
      [] how = "offset" -> [W |-> W, exc |-> "none", it |-> VitPlus(Vbegin(W, x), k)]

RECURSIVE LStepsLoop(_, _, _)
LStepsLoop(W, it, k) ==
    IF k = 0 THEN [exc |-> "none", it |-> it, ub |-> FALSE]
    ELSE LET r == LitInc(W, it)
         IN  IF r.exc # "none" \/ r.ub THEN r ELSE LStepsLoop(W, r.it, k - 1)

\* a cursor of LinkedList x: end(), begin() moved by k times ++, or begin() + k
LCursor(W, x, how, k) ==
    CASE how = "end"    -> [W |-> W, exc |-> "none", it |-> Lend(W, x)]
      [] how = "steps"  -> LET r == LStepsLoop(W, Lbegin(W, x), k)
                           IN  [W |-> IF r.ub THEN [W EXCEPT !.ub = TRUE] ELSE W,
                                exc |-> r.exc, it |-> r.it]
      [] how = "offset" -> LET r == LitPlus(W, Lbegin(W, x), k)
                           IN  [W |-> IF r.ub THEN [W EXCEPT !.ub = TRUE] ELSE W,
                                exc |-> "none", it |-> r.it]

\* the ways the driver makes a cursor at index k of x: begin() moved by k times
\* ++, begin() + k, and (at index getSize()) end()
Positions(x, hows) ==
    {p \in hows \X (0..Size(x)) : p[1] = "end" => p[2] = Size(x)}

\* pos compares equal to end()
PosIsEnd(x, how, k) ==
    IF kind = "vector" THEN VitEq(VCursor(VW, x, how, k).it, Vend(VW, x).it)
    ELSE LitEq(LCursor(LW, x, how, k).it, Lend(LW, x))

----------------------------------------------------------------------------
(* The record of the last call *)

NoCall == [op |-> "none", x |-> "a", y |-> "a", exc |-> "none", ret |-> 0,
           size |-> 0, cap |-> 0]

\* a call of op on x, with getSize() and getCapacity() of x before it
Call(op, x) == [NoCall EXCEPT !.op = op, !.x = x, !.size = Size(x), !.cap = Capacity(x)]

\* a call of op on x with argument y
Call2(op, x, y) == [Call(op, x) EXCEPT !.y = y]

Install(W) ==
    IF kind = "vector"
    THEN vec' = W.vec /\ mem' = W.mem /\ UNCHANGED <<list, heap>>
    ELSE list' = W.list /\ heap' = W.heap /\ UNCHANGED <<vec, mem>>

\* The call returned R.  After undefined behaviour the process either aborts
\* or goes on with the world the operation left.
CommitWorld(R, call) ==
    \/ /\ ~R.W.ub
       /\ status' = status
       /\ last' = [call EXCEPT !.exc = R.exc, !.ret = R.ret]
       /\ Install(R.W)
    \/ /\ R.W.ub
       /\ status' = "ub"
       /\ last' = [call EXCEPT !.exc = "ub", !.ret = R.ret]
       /\ Install(R.W)
    \/ /\ R.W.ub
       /\ status' = "crashed"
       /\ last' = [call EXCEPT !.exc = "crash"]
       /\ UNCHANGED <<vec, mem, list, heap>>

\* no cursor held
NoCur == [coll |-> "none"]

HasCur(c) == c.coll # "none"

\* A call on a container: the driver drops its working cursor, which the call
\* may have invalidated, and keeps the second one only to compare it.
Commit(R, call) ==
    /\ CommitWorld(R, call)
    /\ cur' = NoCur
    /\ UNCHANGED <<kind, pc, n, i, mark>>

\* the driver makes no call after undefined behaviour: what the process does from
\* there on is not defined
Running == status = "run" /\ pc = "idle"

----------------------------------------------------------------------------
(* Actions: one per public operation, on the Collection the driver holds *)

CallAppend(x, v, bound) ==
    /\ Running /\ Exists(x) /\ Size(x) < bound
    /\ Commit(IF kind = "vector" THEN Ok(Vappend(VW, x, v)) ELSE Ok(Lappend(LW, x, v)),
              Call("append", x))

CallPrepend(x, v, bound) ==
    /\ Running /\ Exists(x) /\ Size(x) < bound
    /\ Commit(IF kind = "vector" THEN Ok(Vprepend(VW, x, v)) ELSE Ok(Lprepend(LW, x, v)),
              Call("prepend", x))

CallInsert(x, how, k, v, bound) ==
    /\ Running /\ Exists(x) /\ Size(x) < bound
    /\ Commit(IF kind = "vector"
              THEN LET c == VCursor(VW, x, how, k) IN Ok(Vinsert(c.W, x, c.it, v))
              ELSE LET c == LCursor(LW, x, how, k) IN Ok(Linsert(c.W, x, c.it, v)),
              Call("insert", x))

CallPopFirst(x) ==
    /\ Running /\ Exists(x)
    /\ Commit(IF kind = "vector" THEN VpopFirst(VW, x) ELSE LpopFirst(LW, x),
              Call("popFirst", x))

CallPopLast(x) ==
    /\ Running /\ Exists(x)
    /\ Commit(IF kind = "vector" THEN VpopLast(VW, x) ELSE LpopLast(LW, x),
              Call("popLast", x))

CallErase(x, how, k) ==
    /\ Running /\ Exists(x)
    /\ Commit(IF kind = "vector"
              THEN LET c == VCursor(VW, x, how, k) IN Verase(c.W, x, c.it)
              ELSE LET c == LCursor(LW, x, how, k) IN Lerase(c.W, x, c.it),
              Call("erase", x))

CallEraseRange(x, how, k, how2, k2) ==
    /\ Running /\ Exists(x) /\ k <= k2
    /\ Commit(IF kind = "vector"
              THEN LET c  == VCursor(VW, x, how, k)
                       c2 == VCursor(c.W, x, how2, k2)
                   IN  VeraseRange(c2.W, x, c.it, c2.it)
              ELSE LET c  == LCursor(LW, x, how, k)
                       c2 == LCursor(c.W, x, how2, k2)
                   IN  LeraseRange(c2.W, x, c.it, c2.it),
              Call("eraseRange", x))

\* Collection x
CallConstruct(x) ==
    /\ Running /\ ~Exists(x)
    /\ Commit(IF kind = "vector" THEN Ok(VectorCtor(VW, x, DEFAULT_INITIAL_CAPACITY))
              ELSE Ok(LinkedListCtor(LW, x)),
              Call("construct", x))

\* Collection x(y)
CallCopyConstruct(x, y) ==
    /\ Running /\ ~Exists(x) /\ Exists(y)
    /\ Commit(IF kind = "vector" THEN Ok(VectorCopyCtor(VW, x, y))
              ELSE Ok(LinkedListCopyCtor(LW, x, y)),
              Call2("copyConstruct", x, y))

\* x = y
CallCopyAssign(x, y) ==
    /\ Running /\ Exists(x) /\ Exists(y)
    /\ Commit(IF kind = "vector" THEN Ok(VcopyAssign(VW, x, y)) ELSE Ok(LcopyAssign(LW, x, y)),
              Call2("copyAssign", x, y))

\* Collection x(std::move(y))
CallMoveConstruct(x, y) ==
    /\ Running /\ ~Exists(x) /\ Exists(y)
    /\ Commit(IF kind = "vector" THEN Ok(VectorMoveCtor(VW, x, y))
              ELSE Ok(LinkedListMoveCtor(LW, x, y)),
              Call2("moveConstruct", x, y))

\* x = std::move(y), x and y distinct
CallMoveAssign(x, y) ==
    /\ Running /\ Exists(x) /\ Exists(y) /\ x # y
    /\ Commit(IF kind = "vector" THEN Ok(VmoveAssign(VW, x, y)) ELSE Ok(LmoveAssign(LW, x, y)),
              Call2("moveAssign", x, y))

\* x goes out of scope
CallDestroy(x) ==
    /\ Running /\ Exists(x)
    /\ Commit(IF kind = "vector" THEN Ok(VectorDtor(VW, x)) ELSE Ok(LinkedListDtor(LW, x)),
              Call("destroy", x))

----------------------------------------------------------------------------
(* Specifications *)

EmptyVW == [vec |-> [o \in Objs |-> NoVec], mem |-> <<>>, ub |-> FALSE]

EmptyLW == [list |-> [o \in Objs |-> NoList], heap |-> <<>>, ub |-> FALSE]

\* one Collection, a, freshly constructed: Vector(c) for a c of caps, or LinkedList()
InitWith(caps) ==
    /\ kind \in {"vector", "list"}
    /\ \E c \in caps :
          /\ vec = IF kind = "vector" THEN VectorCtor(EmptyVW, "a", c).vec ELSE EmptyVW.vec
          /\ mem = IF kind = "vector" THEN VectorCtor(EmptyVW, "a", c).mem ELSE EmptyVW.mem
    /\ list = IF kind = "list" THEN LinkedListCtor(EmptyLW, "a").list ELSE EmptyLW.list
    /\ heap = IF kind = "list" THEN LinkedListCtor(EmptyLW, "a").heap ELSE EmptyLW.heap
    /\ status = "run"
    /\ last = NoCall
    /\ pc = "idle"
    /\ n = 0
    /\ i = 0
    /\ cur = NoCur
    /\ mark = NoCur

\* Vector() and Vector(c) for the explicit capacities 1..MaxInitCap
Init == InitWith((1..MaxInitCap) \cup {DEFAULT_INITIAL_CAPACITY})

\* Vector() and Vector(1)
InitPair == InitWith({1, DEFAULT_INITIAL_CAPACITY})

\* the operations of the contract on one object
Unary(x, bound) ==
    \/ \E v \in Values : CallAppend(x, v, bound)
    \/ \E v \in Values : CallPrepend(x, v, bound)
    \/ \E p \in Positions(x, {"steps", "end"}), v \in Values :
          CallInsert(x, p[1], p[2], v, bound)
    \/ CallPopFirst(x)
    \/ CallPopLast(x)
    \/ \E p \in Positions(x, {"steps", "offset", "end"}) : CallErase(x, p[1], p[2])
    \/ \E p \in Positions(x, {"steps"}), q \in Positions(x, {"steps", "end"}) :
          CallEraseRange(x, p[1], p[2], q[1], q[2])

Next == Unary("a", MaxLen)

Spec == Init /\ [][Next]_vars

\* the initializer lists a constructor is given: up to MaxInitCap items
InitLists == UNION {[1..k -> Values] : k \in 0..MaxInitCap}

\* one Collection, a, made by any constructor that takes no other Collection:
\* Vector(), Vector(c) for c in 0..MaxInitCap, Vector(l), LinkedList(), LinkedList(l)
InitCtor ==
    /\ kind \in {"vector", "list"}
    /\ \E how \in {"capacity", "list"}, c \in (0..MaxInitCap) \cup {DEFAULT_INITIAL_CAPACITY},
          l \in InitLists :
          LET V == IF how = "capacity" THEN VectorCtor(EmptyVW, "a", c)
                   ELSE VectorInitList(EmptyVW, "a", l)
              L == IF how = "capacity" THEN LinkedListCtor(EmptyLW, "a")
                   ELSE LinkedListInitList(EmptyLW, "a", l)
          IN  /\ vec = IF kind = "vector" THEN V.vec ELSE EmptyVW.vec
              /\ mem = IF kind = "vector" THEN V.mem ELSE EmptyVW.mem
              /\ list = IF kind = "list" THEN L.list ELSE EmptyLW.list
              /\ heap = IF kind = "list" THEN L.heap ELSE EmptyLW.heap
    /\ status = "run"
    /\ last = NoCall
    /\ pc = "idle"
    /\ n = 0
    /\ i = 0
    /\ cur = NoCur
    /\ mark = NoCur

\* one object, however constructed, under the operations of the contract
SpecCtor == InitCtor /\ [][Next]_vars

\* the operations at the two ends
AtEnds(x, bound) ==
    \/ \E v \in Values : CallAppend(x, v, bound)
    \/ \E v \in Values : CallPrepend(x, v, bound)
    \/ CallPopFirst(x)
    \/ CallPopLast(x)

\* two objects: b is copy-constructed from a, either is assigned to the other
NextPair ==
    \/ \E x \in Objs : AtEnds(x, MaxPairLen)
    \/ CallCopyConstruct("b", "a")
    \/ \E x \in Objs, y \in Objs : CallCopyAssign(x, y)
    \/ CallDestroy("b")

SpecPair == InitPair /\ [][NextPair]_vars

\* two objects, with moves: b is default- or move-constructed
NextMove ==
    \/ \E x \in Objs : AtEnds(x, MaxPairLen)
    \/ CallConstruct("b")
    \/ CallMoveConstruct("b", "a")
    \/ \E x \in Objs, y \in Objs : CallMoveAssign(x, y)
    \/ CallDestroy("b")

SpecMove == InitPair /\ [][NextMove]_vars

\* two LinkedLists, a and b, under every public operation: all operations of
\* the contract on a, the operations at the ends on b, and construction,
\* copies, moves and destruction between them
InitList == kind = "list" /\ InitWith({DEFAULT_INITIAL_CAPACITY})

NextList ==
    \/ Unary("a", MaxPairLen)
    \/ AtEnds("b", MaxPairLen)
    \/ CallConstruct("b")
    \/ CallCopyConstruct("b", "a")
    \/ CallMoveConstruct("b", "a")
    \/ \E x \in Objs, y \in Objs : CallCopyAssign(x, y)
    \/ \E x \in Objs, y \in Objs : CallMoveAssign(x, y)
    \/ CallDestroy("b")

SpecList == InitList /\ [][NextList]_vars

----------------------------------------------------------------------------
(* main.cpp: testAppend<vector>(n), testAppend<list>(n), testPrepend<vector>(n), *)
(* testPrepend<list>(n), each on a Collection of its own                         *)

NextBenchmark(p) ==
    CASE p = "appendVector"  -> "appendList"
      [] p = "appendList"    -> "prependVector"
      [] p = "prependVector" -> "prependList"
      [] p = "prependList"   -> "done"

KindOf(p) == IF p \in {"appendVector", "prependVector"} THEN "vector" ELSE "list"

\* Collection collection;
DefaultConstructed(k) ==
    /\ vec' = IF k = "vector" THEN VectorCtor(EmptyVW, "a", DEFAULT_INITIAL_CAPACITY).vec
              ELSE EmptyVW.vec
    /\ mem' = IF k = "vector" THEN VectorCtor(EmptyVW, "a", DEFAULT_INITIAL_CAPACITY).mem
              ELSE EmptyVW.mem
    /\ list' = IF k = "list" THEN LinkedListCtor(EmptyLW, "a").list ELSE EmptyLW.list
    /\ heap' = IF k = "list" THEN LinkedListCtor(EmptyLW, "a").heap ELSE EmptyLW.heap

\* main is entered with repeatCount = n, and testAppend<vector> has made its collection
InitMain ==
    /\ n \in 0..MaxRepeat
    /\ i = 0
    /\ pc = "appendVector"
    /\ kind = "vector"
    /\ vec = VectorCtor(EmptyVW, "a", DEFAULT_INITIAL_CAPACITY).vec
    /\ mem = VectorCtor(EmptyVW, "a", DEFAULT_INITIAL_CAPACITY).mem
    /\ list = EmptyLW.list
    /\ heap = EmptyLW.heap
    /\ status = "run"
    /\ last = NoCall
    /\ cur = NoCur
    /\ mark = NoCur

\* testAppend: collection.append(i)
TestAppend ==
    /\ status = "run" /\ pc \in {"appendVector", "appendList"} /\ i < n
    /\ CommitWorld(IF kind = "vector" THEN Ok(Vappend(VW, "a", i)) ELSE Ok(Lappend(LW, "a", i)),
                   Call("append", "a"))
    /\ i' = IF status' = "crashed" THEN i ELSE i + 1
    /\ UNCHANGED <<kind, pc, n, cur, mark>>

\* testPrepend: collection.prepend(i)
TestPrepend ==
    /\ status = "run" /\ pc \in {"prependVector", "prependList"} /\ i < n
    /\ CommitWorld(IF kind = "vector" THEN Ok(Vprepend(VW, "a", i)) ELSE Ok(Lprepend(LW, "a", i)),
                   Call("prepend", "a"))
    /\ i' = IF status' = "crashed" THEN i ELSE i + 1
    /\ UNCHANGED <<kind, pc, n, cur, mark>>

\* the loop is over: the collection is destroyed, and the next benchmark makes its own
TestReturn ==
    /\ status = "run" /\ pc # "done" /\ pc # "idle" /\ i >= n
    /\ ~(IF kind = "vector" THEN VectorDtor(VW, "a").ub ELSE LinkedListDtor(LW, "a").ub)
    /\ pc' = NextBenchmark(pc)
    /\ kind' = KindOf(pc')
    /\ IF pc' = "done"
       THEN vec' = EmptyVW.vec /\ mem' = EmptyVW.mem /\ list' = EmptyLW.list /\ heap' = EmptyLW.heap
       ELSE DefaultConstructed(kind')
    /\ i' = 0
    /\ last' = Call("destroy", "a")
    /\ UNCHANGED <<n, status, cur, mark>>

NextMain == TestAppend \/ TestPrepend \/ TestReturn

SpecMain == InitMain /\ [][NextMain]_vars

----------------------------------------------------------------------------
(* Reference sequences *)

InsertAt(s, k, v) == SubSeq(s, 1, k) \o <<v>> \o SubSeq(s, k + 1, Len(s))

\* s without its elements at the indices k .. k2-1 (counted from 0)
RemoveRange(s, k, k2) == SubSeq(s, 1, k) \o SubSeq(s, k2 + 1, Len(s))

Reverse(s) == [k \in 1..Len(s) |-> s[Len(s) + 1 - k]]

\* 0, 1, ..., m-1
Iota(m) == [k \in 1..m |-> k - 1]

----------------------------------------------------------------------------
(* Claims *)

\* C1: a default-constructed Vector or LinkedList that was appended to i times
\* (testAppend appends 0, 1, ..., i-1) has getSize() = i and is traversed from
\* begin() to end() as 0, 1, ..., i-1, also once i exceeds the Vector's
\* initial capacity.
C1_AppendKeepsInsertionOrder ==
    pc \in {"appendVector", "appendList"} =>
        /\ status = "run"
        /\ Size("a") = i
        /\ Contents("a") = Iota(i)

\* C1 witness: the Vector has been appended to more often than its initial capacity
C1_Witness ==
    /\ pc = "appendVector"
    /\ i > DEFAULT_INITIAL_CAPACITY
    /\ Capacity("a") = 2 * DEFAULT_INITIAL_CAPACITY
    /\ Contents("a") = Iota(i)

\* C2: after i prepends to an empty container (testPrepend prepends 0, 1, ...,
\* i-1) getSize() = i and the traversal yields the values in reverse insertion
\* order.
C2_PrependReversesInsertionOrder ==
    pc \in {"prependVector", "prependList"} =>
        /\ status = "run"
        /\ Size("a") = i
        /\ Contents("a") = Reverse(Iota(i))

\* C2 witness: the list has been prepended to three times
C2_Witness ==
    /\ pc = "prependList"
    /\ i = 3
    /\ Contents("a") = <<2, 1, 0>>

\* what Contents(x) would be right after x.append(v)
ContentsAfterAppend(x, v) ==
    IF kind = "vector" THEN VTraverse(Vappend(VW, x, v), x)
    ELSE LTraverse(Lappend(LW, x, v), x)

RECURSIVE LChainFrom(_, _, _)
\* the nodes met from m on by following next
LChainFrom(W, m, fuel) ==
    IF fuel = 0 \/ ~LLive(W, m) THEN {}
    ELSE {m} \cup LChainFrom(W, W.heap[m].next, fuel - 1)

\* the worlds of the next state
NextVW == [vec |-> vec', mem |-> mem', ub |-> FALSE]

NextLW == [list |-> list', heap |-> heap', ub |-> FALSE]

\* Exists, Size, Capacity, Contents and BeginIsEnd of x in the next state
ExistsNext(x) ==
    IF kind = "vector" THEN NextVW.vec[x].state = "live" ELSE NextLW.list[x].state = "live"

SizeNext(x) == IF kind = "vector" THEN VgetSize(NextVW, x) ELSE LgetSize(NextLW, x)

CapacityNext(x) == IF kind = "vector" THEN VgetCapacity(NextVW, x) ELSE 0

ContentsNext(x) == IF kind = "vector" THEN VTraverse(NextVW, x) ELSE LTraverse(NextLW, x)

BeginIsEndNext(x) ==
    IF kind = "vector" THEN VitEq(Vbegin(NextVW, x), Vend(NextVW, x).it)
    ELSE LitEq(Lbegin(NextLW, x), Lend(NextLW, x))

\* the storage x owns in the next state: its buffer, or its guards and the
\* nodes between them
StorageNext(x) ==
    IF kind = "vector" THEN {NextVW.vec[x].elements} \ {Null}
    ELSE LChainFrom(NextLW, NextLW.list[x].firstGuard, LFuel(NextLW))

\* the class invariant of x: a Vector's buffer is allocated and has capacity
\* slots, of which size are in use; an empty list's guards point at each other
ClassInvariant(x) ==
    IF kind = "vector"
    THEN /\ vec[x].size <= vec[x].capacity
         /\ vec[x].elements \in DOMAIN mem
         /\ Len(mem[vec[x].elements].cells) = vec[x].capacity
    ELSE /\ list[x].firstGuard \in DOMAIN heap
         /\ list[x].lastGuard \in DOMAIN heap
         /\ list[x].size = 0 =>
               /\ heap[list[x].firstGuard].next = list[x].lastGuard
               /\ heap[list[x].lastGuard].prev = list[x].firstGuard

\* C3: in any interleaving of the operations, append adds at the back, prepend
\* at the front, popFirst on a non-empty container returns and removes the
\* front element, popLast the back element; each changes the size by exactly 1
\* and keeps the other elements in their order, and getSize() is the length of
\* the traversal.
C3_EndsFollowReferenceSequence ==
    [][/\ \A v \in Values :
            CallAppend("a", v, MaxLen) =>
                /\ status' = "run" /\ last'.exc = "none"
                /\ ContentsNext("a") = Append(Contents("a"), v)
                /\ SizeNext("a") = Size("a") + 1
       /\ \A v \in Values :
            CallPrepend("a", v, MaxLen) =>
                /\ status' = "run" /\ last'.exc = "none"
                /\ ContentsNext("a") = <<v>> \o Contents("a")
                /\ SizeNext("a") = Size("a") + 1
       /\ (CallPopFirst("a") /\ Size("a") > 0) =>
                /\ status' = "run" /\ last'.exc = "none"
                /\ last'.ret = Head(Contents("a"))
                /\ ContentsNext("a") = Tail(Contents("a"))
                /\ SizeNext("a") = Size("a") - 1
       /\ (CallPopLast("a") /\ Size("a") > 0) =>
                /\ status' = "run" /\ last'.exc = "none"
                /\ last'.ret = Contents("a")[Len(Contents("a"))]
                /\ ContentsNext("a") = SubSeq(Contents("a"), 1, Len(Contents("a")) - 1)
                /\ SizeNext("a") = Size("a") - 1
       /\ SizeNext("a") = Len(ContentsNext("a"))
      ]_vars

\* C3 witness: popLast returned 2 from a container of three elements and left 2, 1
C3_Witness ==
    /\ last.op = "popLast" /\ last.exc = "none"
    /\ last.size = 3 /\ last.ret = 2
    /\ Contents("a") = <<2, 1>>

\* C4: popFirst and popLast on a container of size 0 fail with a logic error
\* and change nothing: the size stays 0, begin() == end() still holds and the
\* Vector's capacity is what it was.
C4_PopOnEmptyThrowsAndKeepsState ==
    [][((CallPopFirst("a") \/ CallPopLast("a")) /\ Size("a") = 0) =>
            /\ status' = "run"
            /\ last'.exc = "logic_error"
            /\ <<vec, mem, list, heap>>' = <<vec, mem, list, heap>>
            /\ SizeNext("a") = 0
            /\ BeginIsEndNext("a")
            /\ CapacityNext("a") = Capacity("a")
      ]_vars

\* C4 witness: popFirst was called on a Vector that had been emptied again
C4_Witness ==
    /\ kind = "vector"
    /\ last.op = "popFirst" /\ last.size = 0 /\ last.exc = "logic_error"
    /\ mem[vec["a"].elements].cells[1] # Uninit

\* C5: erase(pos) fails with out-of-range and changes neither size nor
\* contents whenever the container is empty or pos compares equal to end(),
\* whether pos was made by end(), by repeated ++ or by begin() + getSize().
C5_EraseAtEndThrows ==
    [][\A p \in Positions("a", {"steps", "offset", "end"}) :
            (CallErase("a", p[1], p[2]) /\ (Size("a") = 0 \/ PosIsEnd("a", p[1], p[2]))) =>
                /\ last'.exc = "out_of_range"
                /\ SizeNext("a") = Size("a")
                /\ ContentsNext("a") = Contents("a")
      ]_vars

\* C6: erase(first, last) with first at index k and last at index k2, k <= k2,
\* removes exactly the elements at [k, k2), keeps the others in their order
\* and lowers the size by k2 - k; erase(it, it) changes nothing and does not
\* throw, also on an empty container; erase(begin(), end()) leaves size 0 and
\* begin() == end().
C6_EraseRangeRemovesTheRange ==
    [][\A p \in Positions("a", {"steps"}), q \in Positions("a", {"steps", "end"}) :
            CallEraseRange("a", p[1], p[2], q[1], q[2]) =>
                /\ status' = "run" /\ last'.exc = "none"
                /\ ContentsNext("a") = RemoveRange(Contents("a"), p[2], q[2])
                /\ SizeNext("a") = Size("a") - (q[2] - p[2])
                /\ p[2] = q[2] => ContentsNext("a") = Contents("a")
                /\ (p[2] = 0 /\ q[2] = Size("a")) => (SizeNext("a") = 0 /\ BeginIsEndNext("a"))
      ]_vars

\* C6 witness: a range erase took a list of three elements down to <<1>>
C6_Witness ==
    /\ kind = "list"
    /\ last.op = "eraseRange" /\ last.exc = "none"
    /\ last.size = 3
    /\ Contents("a") = <<1>>

\* C7: insert(pos, item) with pos at index k puts item at index k, moves the
\* former elements [k, size) one place later in their order, leaves [0, k)
\* alone and raises the size by 1; insert(end(), item) gives what append(item)
\* gives; for the Vector also when size = capacity and the insert reallocates.
C7_InsertPlacesItemAtIndex ==
    [][\A p \in Positions("a", {"steps", "end"}), v \in Values :
            CallInsert("a", p[1], p[2], v, MaxLen) =>
                /\ status' = "run" /\ last'.exc = "none"
                /\ ContentsNext("a") = InsertAt(Contents("a"), p[2], v)
                /\ SizeNext("a") = Size("a") + 1
                /\ p[1] = "end" => ContentsNext("a") = ContentsAfterAppend("a", v)
      ]_vars

\* C7 witness: an insert into a full Vector of two elements doubled its capacity
C7_Witness ==
    /\ kind = "vector"
    /\ last.op = "insert" /\ last.exc = "none"
    /\ last.size = 2 /\ last.cap = 2
    /\ Capacity("a") = 4
    /\ Contents("a") = <<1, 2, 1>>

\* C8: copy construction and copy assignment give the target the size and the
\* elements of the source, in order, and leave the source as it was; the two
\* share no storage, and no later operation on one of them changes the size
\* or the contents of the other.
C8_CopyIsDeep ==
    [][/\ (last'.op = "copyConstruct" /\ CallCopyConstruct("b", "a")) =>
            /\ status' = "run"
            /\ ContentsNext("b") = Contents("a")
            /\ SizeNext("b") = Size("a")
       /\ \A x \in Objs, y \in Objs :
            (last'.op = "copyAssign" /\ CallCopyAssign(x, y)) =>
                /\ status' = "run"
                /\ ContentsNext(x) = Contents(y)
                /\ SizeNext(x) = Size(y)
       /\ \A o \in Objs :
            (Exists(o) /\ o # last'.x) =>
                /\ ExistsNext(o)
                /\ ContentsNext(o) = Contents(o)
                /\ SizeNext(o) = Size(o)
       /\ (ExistsNext("a") /\ ExistsNext("b")) => StorageNext("a") \cap StorageNext("b") = {}
      ]_vars

\* C8 witness: a non-empty Vector whose capacity was below the size of the
\* source was assigned the source
C8_Witness ==
    /\ kind = "vector"
    /\ last.op = "copyAssign" /\ last.x # last.y
    /\ last.size = 1 /\ last.cap = 1
    /\ Size(last.y) = 2
    /\ Contents(last.x) = Contents(last.y)

\* C9: after move construction or move assignment x = std::move(y), x and y
\* distinct, x holds the elements y held, in order and with y's size, and y
\* has size 0 with begin() == end().
C9_MoveTransfersElements ==
    [][/\ CallMoveConstruct("b", "a") =>
            /\ status' = "run"
            /\ ContentsNext("b") = Contents("a")
            /\ SizeNext("b") = Size("a")
            /\ SizeNext("a") = 0
            /\ BeginIsEndNext("a")
       /\ \A x \in Objs, y \in Objs :
            CallMoveAssign(x, y) =>
                /\ status' = "run"
                /\ ContentsNext(x) = Contents(y)
                /\ SizeNext(x) = Size(y)
                /\ SizeNext(y) = 0
                /\ BeginIsEndNext(y)
      ]_vars

\* C9 witness: a non-empty container was move-assigned two elements
C9_Witness ==
    /\ last.op = "moveAssign" /\ last.exc = "none"
    /\ last.size = 1
    /\ Size(last.x) = 2 /\ Contents(last.x) = <<1, 2>>
    /\ Size(last.y) = 0

\* C10: a container that has just been moved from is in a valid empty state:
\* its size is 0 and its class invariant holds (the Vector owns a buffer of
\* capacity slots, the list's guards point at each other).
C10_MovedFromIsValidEmpty ==
    (last.op \in {"moveConstruct", "moveAssign"} /\ status = "run") =>
        /\ Size(last.y) = 0
        /\ ClassInvariant(last.y)

\* C11: every Vector, however constructed (default capacity, an explicit
\* capacity including 0, an initializer list including the empty one), has
\* size <= capacity after every sequence of operations, and append, prepend
\* and insert write only to slots below the capacity of the current buffer
\* (a write outside the buffer is undefined behaviour, after which status is
\* no longer "run").
C11_SizeWithinCapacity ==
    kind = "vector" =>
        /\ status = "run"
        /\ \A x \in Objs : Exists(x) => vec[x].size <= vec[x].capacity

\* C12: the capacity of a Vector never decreases: no operation that returns
\* normally (append, prepend, popFirst, popLast, move assignment, ...) leaves
\* an object with a smaller getCapacity() than it had before.
C12_CapacityNeverDecreases ==
    [][(kind = "vector" /\ status' = "run") =>
            \A x \in Objs :
                (Exists(x) /\ ExistsNext(x)) => CapacityNext(x) >= Capacity(x)
      ]_vars

RECURSIVE LWalk(_, _, _, _, _)
\* the nodes met from m on by following the pointer dir, up to and with stop
LWalk(h, m, dir, stop, fuel) ==
    IF fuel = 0 \/ m \notin DOMAIN h THEN <<>>
    ELSE IF m = stop THEN <<m>>
    ELSE <<m>> \o LWalk(h, h[m][dir], dir, stop, fuel - 1)

\* the chain of list x is well formed
LWellFormed(x) ==
    LET fg  == list[x].firstGuard
        lg  == list[x].lastGuard
        fwd == LWalk(heap, fg, "next", lg, Cardinality(DOMAIN heap) + 1)
        bwd == LWalk(heap, lg, "prev", fg, Cardinality(DOMAIN heap) + 1)
    IN  /\ fg \in DOMAIN heap /\ lg \in DOMAIN heap /\ fg # lg
        /\ heap[fg].kind = "guard" /\ heap[lg].kind = "guard"
        \* next from firstGuard reaches lastGuard after exactly size value nodes
        /\ Len(fwd) = list[x].size + 2
        /\ fwd[1] = fg /\ fwd[Len(fwd)] = lg
        /\ \A k \in 2..(Len(fwd) - 1) : heap[fwd[k]].kind = "value"
        \* prev from lastGuard reaches firstGuard through the same nodes in reverse
        /\ bwd = Reverse(fwd)
        \* n.next.prev = n for every node before lastGuard
        /\ \A k \in 1..(Len(fwd) - 1) : heap[heap[fwd[k]].next].prev = fwd[k]
        \* size = 0 exactly when the guards point at each other
        /\ list[x].size = 0 <=> (heap[fg].next = lg /\ heap[lg].prev = fg)

\* C13: after every public LinkedList operation (append, prepend, insert,
\* popFirst, popLast, both erase forms, copy and move construction and
\* assignment) no undefined behaviour has happened and the chain of every
\* list is well formed: next from firstGuard reaches lastGuard after exactly
\* size value nodes, prev from lastGuard runs through the same nodes in
\* reverse, n.next.prev = n, and size = 0 exactly when the guards point at
\* each other.
C13_ChainIsWellFormed ==
    kind = "list" =>
        /\ status = "run"
        /\ \A x \in Objs : Exists(x) => LWellFormed(x)

\* C13 witness: a range erase emptied list a of two elements while list b
\* holds two elements
C13_Witness ==
    /\ kind = "list"
    /\ last.op = "eraseRange" /\ last.x = "a" /\ last.size = 2
    /\ Size("a") = 0
    /\ Exists("b") /\ Size("b") = 2
    /\ LWellFormed("a") /\ LWellFormed("b")

\* C14: in every reachable state in which no undefined behaviour has happened,
\* begin() == end() holds exactly when getSize() = 0; a Vector's end() is
\* END-tagged and stands at index size, which for an empty Vector is the
\* position of begin().
C14_BeginIsEndIffEmpty ==
    status = "run" =>
        /\ BeginIsEnd("a") <=> Size("a") = 0
        /\ kind = "vector" =>
              /\ VisEnd(Vend(VW, "a").it)
              /\ Vend(VW, "a").it.cur = Elem(VW, "a", Size("a"))
              /\ Size("a") = 0 => Vend(VW, "a").it.cur = Vbegin(VW, "a").cur

\* C14 witness: a Vector of three elements, whose end() stands at index 3
C14_Witness ==
    /\ kind = "vector" /\ status = "run"
    /\ Size("a") = 3
    /\ ~BeginIsEnd("a")
    /\ Vend(VW, "a").it = VIt(Ptr(vec["a"].elements, 3), "a", "END")

----------------------------------------------------------------------------
(* The driver's cursors into a *)

\* a.begin()
CurBegin == IF kind = "vector" THEN Vbegin(VW, "a") ELSE Lbegin(LW, "a")

\* a.end()
CurEnd == IF kind = "vector" THEN Vend(VW, "a").it ELSE Lend(LW, "a")

\* the world after a.end(): a Vector moves its cached cursor
WorldAfterEnd == IF kind = "vector" THEN Vend(VW, "a").W ELSE LW

\* An operation on the working cursor returned: it threw exc or returned ret,
\* the cursors are then c and m.  After undefined behaviour the process either
\* aborts or goes on.
CommitCursor(exc, ub, ret, call, c, m) ==
    /\ \/ /\ ~ub
          /\ status' = status
          /\ last' = [call EXCEPT !.exc = exc, !.ret = ret]
          /\ cur' = c
          /\ mark' = m
       \/ /\ ub
          /\ status' = "ub"
          /\ last' = [call EXCEPT !.exc = "ub", !.ret = ret]
          /\ cur' = c
          /\ mark' = m
       \/ /\ ub
          /\ status' = "crashed"
          /\ last' = [call EXCEPT !.exc = "crash"]
          /\ UNCHANGED <<cur, mark>>
    /\ UNCHANGED <<kind, vec, mem, list, heap, pc, n, i>>

\* it = a.begin()
ItBegin ==
    /\ Running /\ Exists("a")
    /\ cur' = CurBegin
    /\ last' = Call("begin", "a")
    /\ UNCHANGED <<kind, vec, mem, list, heap, status, pc, n, i, mark>>

\* it = a.end()
ItEnd ==
    /\ Running /\ Exists("a")
    /\ cur' = CurEnd
    /\ Install(WorldAfterEnd)
    /\ last' = Call("end", "a")
    /\ UNCHANGED <<kind, status, pc, n, i, mark>>

\* kept = a.end()
MarkEnd ==
    /\ Running /\ Exists("a")
    /\ mark' = CurEnd
    /\ Install(WorldAfterEnd)
    /\ last' = Call("markEnd", "a")
    /\ UNCHANGED <<kind, status, pc, n, i, cur>>

\* *it
ItDeref ==
    /\ Running /\ HasCur(cur)
    /\ LET r == IF kind = "vector" THEN VitDeref(VW, cur) ELSE LitDeref(LW, cur)
       IN  CommitCursor(r.exc, r.ub, r.val, Call("deref", "a"), cur, mark)

\* ++it
ItInc ==
    /\ Running /\ HasCur(cur)
    /\ LET r == IF kind = "vector" THEN VitInc(VW, cur) ELSE LitInc(LW, cur)
       IN  CommitCursor(r.exc, r.ub, 0, Call("inc", "a"), r.it, mark)

\* --it
ItDec ==
    /\ Running /\ HasCur(cur)
    /\ LET r == IF kind = "vector" THEN VitDec(VW, cur) ELSE LitDec(LW, cur)
       IN  CommitCursor(r.exc, r.ub, 0, Call("dec", "a"), r.it, mark)

\* the two cursor classes
Variants == {"const", "mutable"}

\* kept = it++, it a ConstIterator or an Iterator
ItPostInc(variant) ==
    /\ Running /\ HasCur(cur)
    /\ LET r == CASE kind = "vector" /\ variant = "const"   -> VitPostInc(VW, cur)
                  [] kind = "vector" /\ variant = "mutable" -> VIteratorPostInc(VW, cur)
                  [] kind = "list" /\ variant = "const"     -> LitPostInc(LW, cur)
                  [] kind = "list" /\ variant = "mutable"   -> LIteratorPostInc(LW, cur)
       IN  CommitCursor(r.exc, r.ub, 0, Call2("postInc", "a", variant), r.it,
                        IF r.exc = "none" THEN r.old ELSE mark)

\* kept = it--, it a ConstIterator or an Iterator
ItPostDec(variant) ==
    /\ Running /\ HasCur(cur)
    /\ LET r == CASE kind = "vector" /\ variant = "const"   -> VitPostDec(VW, cur)
                  [] kind = "vector" /\ variant = "mutable" -> VIteratorPostDec(VW, cur)
                  [] kind = "list" /\ variant = "const"     -> LitPostDec(LW, cur)
                  [] kind = "list" /\ variant = "mutable"   -> LIteratorPostDec(LW, cur)
       IN  CommitCursor(r.exc, r.ub, 0, Call2("postDec", "a", variant), r.it,
                        IF r.exc = "none" THEN r.old ELSE mark)

\* cursors are taken from a and moved, a changes at its two ends in between
NextCursor ==
    \/ AtEnds("a", MaxLen)
    \/ ItBegin
    \/ ItEnd
    \/ MarkEnd
    \/ ItDeref
    \/ ItInc
    \/ ItDec
    \/ \E variant \in Variants : ItPostInc(variant)
    \/ \E variant \in Variants : ItPostDec(variant)

SpecCursor == InitCtor /\ [][NextCursor]_vars

----------------------------------------------------------------------------
(* C15: for both containers, empty or not, *end() and ++end() on the cursor
   end() returned and --begin() on the cursor begin() returned fail with
   out-of-range, and a cursor operation that failed leaves the cursor (its
   position and, for a Vector, its tag) as it was. *)
C15_EndAndBeginAreGuarded ==
    [][/\ (last.op = "end" /\ last'.op \in {"deref", "inc"}) => last'.exc = "out_of_range"
       /\ (last.op = "begin" /\ last'.op = "dec") => last'.exc = "out_of_range"
       /\ (last'.op \in {"deref", "inc", "dec", "postInc", "postDec"}
              /\ last'.exc = "out_of_range") => cur' = cur
      ]_vars

\* --begin() has failed on a Vector of two items, the cursor still BEGIN-tagged at slot 0
C15_Witness ==
    /\ kind = "vector" /\ Size("a") = 2
    /\ last.op = "dec" /\ last.exc = "out_of_range"
    /\ cur = VIt(Elem(VW, "a", 0), "a", "BEGIN")

----------------------------------------------------------------------------
(* C18: the tag of a Vector cursor after a ++ or -- that returned.  A ++ that
   moves the cursor to an index >= size sets END; a ++ from a BEGIN-tagged
   cursor to an index < size yields REGULAR; a -- from an END-tagged cursor
   yields REGULAR unless it lands on slot 0; every -- that lands on slot 0
   yields BEGIN. *)
C18_TagTransitions ==
    [][(kind = "vector" /\ last'.exc = "none") =>
          /\ last'.op \in {"inc", "postInc"} =>
                /\ cur'.cur.off = cur.cur.off + 1
                /\ cur'.cur.off >= Size("a") => cur'.type = "END"
                /\ (cur.type = "BEGIN" /\ cur'.cur.off < Size("a")) => cur'.type = "REGULAR"
          /\ last'.op \in {"dec", "postDec"} =>
                /\ cur'.cur.off = cur.cur.off - 1
                /\ (cur.type = "END" /\ cur'.cur # Elem(VW, "a", 0)) => cur'.type = "REGULAR"
                /\ cur'.cur = Elem(VW, "a", 0) => cur'.type = "BEGIN"
      ]_vars

\* --it has taken an END-tagged cursor of a Vector of one item to slot 0
C18_Witness ==
    /\ kind = "vector" /\ Size("a") = 1
    /\ last.op = "dec" /\ last.exc = "none"
    /\ mark = VIt(Elem(VW, "a", 1), "a", "END")
    /\ cur = VIt(Elem(VW, "a", 0), "a", "BEGIN")

----------------------------------------------------------------------------
(* C19: equality of Vector cursors.  Two END-tagged cursors compare equal
   whatever their raw positions are (an end() kept across appends and a
   reallocation against a fresh end()); any other two cursors compare equal
   exactly when their raw positions are equal; operator!= is the negation of
   operator==. *)
C19_CursorEquality ==
    (kind = "vector" /\ Exists("a")) =>
        \A c \in {cur, mark, Vbegin(VW, "a"), Vend(VW, "a").it} :
        \A d \in {cur, mark, Vbegin(VW, "a"), Vend(VW, "a").it} :
            (HasCur(c) /\ HasCur(d)) =>
                /\ (c.type = "END" /\ d.type = "END") => VitEq(c, d)
                /\ ~(c.type = "END" /\ d.type = "END") => (VitEq(c, d) <=> c.cur = d.cur)
                /\ VitNeq(c, d) <=> ~VitEq(c, d)

\* an end() kept from before a reallocation equals the end() taken now, in another array
C19_Witness ==
    /\ kind = "vector" /\ status = "run" /\ Size("a") = 3 /\ HasCur(mark)
    /\ mark.type = "END"
    /\ mark.cur.buf # vec["a"].elements
    /\ mark.cur # Vend(VW, "a").it.cur
    /\ VitEq(mark, Vend(VW, "a").it)

----------------------------------------------------------------------------
(* C20: it-- on either container, for a ConstIterator and for an Iterator,
   moves the cursor one position toward begin() and returns a cursor at the
   position held before the call; on a cursor equal to begin() it fails with
   out-of-range. *)
C20_PostDecrementStepsBack ==
    [][last'.op = "postDec" =>
          IF (IF kind = "vector" THEN VitEq(cur, CurBegin) ELSE LitEq(cur, CurBegin))
          THEN last'.exc = "out_of_range"
          ELSE /\ last'.exc = "none"
               /\ IF kind = "vector"
                  THEN cur'.cur = Ptr(cur.cur.buf, cur.cur.off - 1) /\ mark'.cur = cur.cur
                  ELSE cur'.node = LPrev(LW, cur.node) /\ mark'.node = cur.node
      ]_vars

----------------------------------------------------------------------------
(* The lifetime of two objects *)

\* a is changed by every operation of the contract; b is default-, copy- or
\* move-constructed from a and popped; either is copy- or move-assigned to the
\* other, and either is destroyed
\* (of one value: what the items are plays no part in what is allocated)
NextLife ==
    \/ CallAppend("a", 1, MaxPairLen)
    \/ CallPrepend("a", 1, MaxPairLen)
    \/ \E p \in Positions("a", {"steps", "end"}) : CallInsert("a", p[1], p[2], 1, MaxPairLen)
    \/ \E x \in Objs : CallPopFirst(x)
    \/ \E x \in Objs : CallPopLast(x)
    \/ \E p \in Positions("a", {"steps", "end"}) : CallErase("a", p[1], p[2])
    \/ \E p \in Positions("a", {"steps"}), q \in Positions("a", {"steps", "end"}) :
          CallEraseRange("a", p[1], p[2], q[1], q[2])
    \/ CallConstruct("b")
    \/ CallCopyConstruct("b", "a")
    \/ CallMoveConstruct("b", "a")
    \/ \E x \in Objs, y \in Objs : CallCopyAssign(x, y)
    \/ \E x \in Objs, y \in Objs : CallMoveAssign(x, y)
    \/ \E x \in Objs : CallDestroy(x)

SpecLife == InitPair /\ [][NextLife]_vars

\* the storage x owns: its buffer, or its guards and the nodes between them
Storage(x) ==
    IF ~Exists(x) THEN {}
    ELSE IF kind = "vector" THEN {vec[x].elements} \ {Null}
    ELSE {list[x].firstGuard, list[x].lastGuard}
             \cup LChainFrom(LW, list[x].firstGuard, LFuel(LW))

\* everything allocated and not yet freed
Allocated == IF kind = "vector" THEN DOMAIN mem ELSE DOMAIN heap

\* the calls that free storage and allocate none
Frees == {"popFirst", "popLast", "erase", "eraseRange", "moveAssign", "destroy"}

(* C16: storage is freed exactly once and never leaked.  As long as no
   undefined behaviour has happened, what is allocated is exactly what the
   live containers own, each buffer, node and guard owned by one container
   only: nothing a live container reaches is freed, nothing is left allocated
   once every container is destroyed.  No call that frees storage frees
   something twice: it never runs into undefined behaviour. *)
C16_StorageFreedOnce ==
    /\ [](status = "run" =>
            /\ Allocated = Storage("a") \cup Storage("b")
            /\ Storage("a") \cap Storage("b") = {})
    /\ [][(status = "run" /\ last'.op \in Frees) => status' = "run"]_vars

\* b, which held two items, is destroyed after a: nothing is left allocated
C16_Witness ==
    /\ ~Exists("a") /\ ~Exists("b") /\ Allocated = {}
    /\ last.op = "destroy" /\ last.x = "b" /\ last.size = 2 /\ status = "run"

----------------------------------------------------------------------------
(* A Vector and a LinkedList, both named a, run side by side *)

\* the same call was made on both: its outcome on the Vector (exc, ret) and on
\* the LinkedList (lexc, lret)
SideCall(op, RV, RL) ==
    [op |-> op, x |-> "a", y |-> "a", exc |-> RV.exc, ret |-> RV.ret,
     size |-> VgetSize(VW, "a"), cap |-> VgetCapacity(VW, "a"),
     lexc |-> RL.exc, lret |-> RL.ret]

\* Vector() or Vector(c), and LinkedList(), both empty
InitSide ==
    /\ kind = "both"
    /\ \E c \in (1..MaxInitCap) \cup {DEFAULT_INITIAL_CAPACITY} :
          /\ vec = VectorCtor(EmptyVW, "a", c).vec
          /\ mem = VectorCtor(EmptyVW, "a", c).mem
    /\ list = LinkedListCtor(EmptyLW, "a").list
    /\ heap = LinkedListCtor(EmptyLW, "a").heap
    /\ status = "run"
    /\ last = SideCall("none", Ok(VW), Ok(LW))
    /\ pc = "idle"
    /\ n = 0
    /\ i = 0
    /\ cur = NoCur
    /\ mark = NoCur

\* The call returned RV on the Vector and RL on the LinkedList.  After
\* undefined behaviour on either the process aborts or goes on.
CommitSide(op, RV, RL) ==
    /\ \/ /\ ~RV.W.ub /\ ~RL.W.ub
          /\ status' = status
          /\ last' = SideCall(op, RV, RL)
          /\ vec' = RV.W.vec /\ mem' = RV.W.mem /\ list' = RL.W.list /\ heap' = RL.W.heap
       \/ /\ RV.W.ub \/ RL.W.ub
          /\ status' = "ub"
          /\ last' = SideCall(op, [RV EXCEPT !.exc = IF RV.W.ub THEN "ub" ELSE @],
                                  [RL EXCEPT !.exc = IF RL.W.ub THEN "ub" ELSE @])
          /\ vec' = RV.W.vec /\ mem' = RV.W.mem /\ list' = RL.W.list /\ heap' = RL.W.heap
       \/ /\ RV.W.ub \/ RL.W.ub
          /\ status' = "crashed"
          /\ last' = SideCall(op, [RV EXCEPT !.exc = "crash"], [RL EXCEPT !.exc = "crash"])
          /\ UNCHANGED <<vec, mem, list, heap>>
    /\ UNCHANGED <<kind, pc, n, i, cur, mark>>

\* the indices a cursor is moved to from begin() by ++
SideIndices == 0..VgetSize(VW, "a")

SideRoom == VgetSize(VW, "a") < MaxLen /\ LgetSize(LW, "a") < MaxLen

SideAppend(v) ==
    /\ Running /\ SideRoom
    /\ CommitSide("append", Ok(Vappend(VW, "a", v)), Ok(Lappend(LW, "a", v)))

SidePrepend(v) ==
    /\ Running /\ SideRoom
    /\ CommitSide("prepend", Ok(Vprepend(VW, "a", v)), Ok(Lprepend(LW, "a", v)))

SideInsert(k, v) ==
    /\ Running /\ SideRoom
    /\ LET c == VCursor(VW, "a", "steps", k)
           d == LCursor(LW, "a", "steps", k)
       IN  CommitSide("insert", Ok(Vinsert(c.W, "a", c.it, v)), Ok(Linsert(d.W, "a", d.it, v)))

SidePopFirst ==
    /\ Running
    /\ CommitSide("popFirst", VpopFirst(VW, "a"), LpopFirst(LW, "a"))

SidePopLast ==
    /\ Running
    /\ CommitSide("popLast", VpopLast(VW, "a"), LpopLast(LW, "a"))

SideErase(k) ==
    /\ Running
    /\ LET c == VCursor(VW, "a", "steps", k)
           d == LCursor(LW, "a", "steps", k)
       IN  CommitSide("erase", Verase(c.W, "a", c.it), Lerase(d.W, "a", d.it))

SideEraseRange(k, k2) ==
    /\ Running /\ k <= k2
    /\ LET c  == VCursor(VW, "a", "steps", k)
           c2 == VCursor(c.W, "a", "steps", k2)
           d  == LCursor(LW, "a", "steps", k)
           d2 == LCursor(d.W, "a", "steps", k2)
       IN  CommitSide("eraseRange", VeraseRange(c2.W, "a", c.it, c2.it),
                      LeraseRange(d2.W, "a", d.it, d2.it))

NextSide ==
    \/ \E v \in Values : SideAppend(v)
    \/ \E v \in Values : SidePrepend(v)
    \/ \E k \in SideIndices, v \in Values : SideInsert(k, v)
    \/ SidePopFirst
    \/ SidePopLast
    \/ \E k \in SideIndices : SideErase(k)
    \/ \E k \in SideIndices, k2 \in SideIndices : SideEraseRange(k, k2)

SpecSide == InitSide /\ [][NextSide]_vars

(* C17: a Vector and a LinkedList run side by side from empty through the
   same append, prepend, insert, popFirst, popLast, erase(pos) and
   erase(first, last) calls, the positions being the same index reached from
   begin() by ++, report the same getSize() and isEmpty(), the same forward
   traversal, the same pop return values, and fail in the same steps with
   the same error category. *)
C17_SameObservations ==
    /\ status = "run"
    /\ VgetSize(VW, "a") = LgetSize(LW, "a")
    /\ VisEmpty(VW, "a") <=> LisEmpty(LW, "a")
    /\ VTraverse(VW, "a") = LTraverse(LW, "a")
    /\ last.exc = last.lexc
    /\ last.op \in {"popFirst", "popLast"} => last.ret = last.lret

\* both have thrown out_of_range in erase at the index of end(), holding three items
C17_Witness ==
    /\ kind = "both" /\ last.op = "erase"
    /\ last.exc = "out_of_range" /\ last.lexc = "out_of_range"
    /\ VTraverse(VW, "a") = <<1, 2, 1>> /\ LTraverse(LW, "a") = <<1, 2, 1>>

----------------------------------------------------------------------------
\* what a call that adds one item to Vector a leaves: the traversal expected,
\* the capacity doubled and the buffer replaced by one of that many slots when
\* size = capacity, capacity and buffer kept when size < capacity
GrowthPost(expected) ==
    /\ status' = "run" /\ last'.exc = "none"
    /\ ContentsNext("a") = expected
    /\ vec'["a"].elements \in DOMAIN mem'
    /\ Len(mem'[vec'["a"].elements].cells) = CapacityNext("a")
    /\ IF Size("a") = Capacity("a")
       THEN CapacityNext("a") = 2 * Capacity("a")
       ELSE CapacityNext("a") = Capacity("a") /\ vec'["a"].elements = vec["a"].elements

(* C21: Vector growth.  Whenever append, prepend or insert is called with
   size = capacity, the capacity afterwards is twice the capacity before, the
   live elements are carried over to the new buffer in their order and the
   added value is stored; with size < capacity the call changes neither the
   capacity nor the buffer. *)
C21_GrowthDoublesCapacity ==
    [][(kind = "vector" /\ last'.op \in {"append", "prepend", "insert"}) =>
          /\ \A v \in Values :
                CallAppend("a", v, MaxLen) => GrowthPost(Append(Contents("a"), v))
          /\ \A v \in Values :
                CallPrepend("a", v, MaxLen) => GrowthPost(<<v>> \o Contents("a"))
          /\ \A p \in Positions("a", {"steps", "end"}), v \in Values :
                CallInsert("a", p[1], p[2], v, MaxLen) =>
                    GrowthPost(InsertAt(Contents("a"), p[2], v))
      ]_vars

----------------------------------------------------------------------------
(* Offset arithmetic on the driver's cursor *)

\* it = it + d
ItPlus(d) ==
    /\ Running /\ HasCur(cur)
    /\ IF kind = "vector"
       THEN LET r == VitPlus(cur, d)
            IN  CommitCursor("none", ~VInArray(VW, r.cur), 0, Call("plus", "a"), r, mark)
       ELSE LET r == LitPlus(LW, cur, d)
            IN  CommitCursor("none", r.ub, 0, Call("plus", "a"), r.it, mark)

\* it = it - d
ItMinus(d) ==
    /\ Running /\ HasCur(cur)
    /\ IF kind = "vector"
       THEN LET r == VitMinus(cur, d)
            IN  CommitCursor("none", ~VInArray(VW, r.cur), 0, Call("minus", "a"), r, mark)
       ELSE LET r == LitMinus(LW, cur, d)
            IN  CommitCursor("none", r.ub, 0, Call("minus", "a"), r.it, mark)

\* the cursor of a container that is not changed meanwhile is also moved by
\* it + d and it - d
NextOffset ==
    \/ ItBegin
    \/ ItEnd
    \/ ItDeref
    \/ ItInc
    \/ ItDec
    \/ \E variant \in Variants : ItPostInc(variant)
    \/ \E variant \in Variants : ItPostDec(variant)
    \/ \E d \in 0..MaxOffset : ItPlus(d)
    \/ \E d \in 0..MaxOffset : ItMinus(d)

SpecOffset == InitCtor /\ [][NextOffset]_vars

(* C22: the guard nodes of a LinkedList are never exposed through cursors.  No
   cursor obtained from begin() or end() by ++, --, it++, it--, it + d and
   it - d that returned refers to firstGuard or to a null node, and *it on
   such a cursor returns the value of a ValueNode of the list or fails with
   out-of-range. *)
C22_GuardsAreNotExposed ==
    /\ [](kind = "list" =>
            \A c \in {cur, mark} :
                (HasCur(c) /\ status = "run" /\ Exists("a")) =>
                    /\ c.node # Null
                    /\ c.node # list["a"].firstGuard)
    /\ [][(kind = "list" /\ last'.op = "deref") =>
              \/ last'.exc = "out_of_range"
              \/ /\ last'.exc = "none"
                 /\ LIsValueNode(LW, cur.node)
                 /\ last'.ret = LValue(LW, cur.node)
         ]_vars

----------------------------------------------------------------------------
(* C23: erase(pos) that returned, pos at index k < size (made from begin() by
   k times ++ or as begin() + k), has removed exactly the element at index k,
   kept the other elements in their order and lowered the size by 1; so for
   k = 0, k = size - 1 and size = 1. *)
C23_EraseRemovesOneElement ==
    [][last'.op = "erase" =>
          \A p \in Positions("a", {"steps", "offset"}) :
              (p[2] < Size("a") /\ CallErase("a", p[1], p[2])) =>
                  /\ status' = "run"
                  /\ last'.exc = "none" =>
                        /\ ContentsNext("a") = RemoveRange(Contents("a"), p[2], p[2] + 1)
                        /\ SizeNext("a") = Size("a") - 1
      ]_vars

\* erase has returned on a container of three items, two in their order are left
C23_Witness ==
    /\ last.op = "erase" /\ last.exc = "none" /\ status = "run"
    /\ last.size = 3
    /\ Contents("a") = <<1, 2>>

----------------------------------------------------------------------------
(* C24: the cursor of a Vector that is not changed meanwhile, obtained from
   begin() or end() and moved by ++ and -- that returned, has its index within
   0..size, is END-tagged exactly when its index is size, and *it returns only
   when its index is < size; on an empty Vector no cursor can be dereferenced
   or moved off slot 0. *)
C24_CursorStaysInRange ==
    /\ [](  (kind = "vector" /\ status = "run" /\ HasCur(cur)) =>
              /\ cur.cur.buf = vec["a"].elements
              /\ cur.cur.off >= 0
              /\ cur.cur.off <= Size("a")
              /\ cur.type = "END" <=> cur.cur.off = Size("a"))
    /\ [][(kind = "vector" /\ last'.op = "deref" /\ last'.exc # "out_of_range") =>
              /\ status' = "run"
              /\ cur.cur.off < Size("a")
         ]_vars

----------------------------------------------------------------------------
(* Offset arithmetic against stepping *)

RECURSIVE VStepsBackLoop(_, _, _)
\* k times --it
VStepsBackLoop(W, it, k) ==
    IF k = 0 THEN [exc |-> "none", it |-> it]
    ELSE LET r == VitDec(W, it)
         IN  IF r.exc # "none" THEN [exc |-> r.exc, it |-> r.it]
             ELSE VStepsBackLoop(W, r.it, k - 1)

RECURSIVE LStepsBackLoop(_, _, _)
LStepsBackLoop(W, it, k) ==
    IF k = 0 THEN [exc |-> "none", it |-> it, ub |-> FALSE]
    ELSE LET r == LitDec(W, it)
         IN  IF r.exc # "none" \/ r.ub THEN r ELSE LStepsBackLoop(W, r.it, k - 1)

\* how a call ended: with undefined behaviour, with an exception, or returning
Outcome(exc, ub) == IF ub THEN "ub" ELSE exc

\* what can be told of a cursor of Vector a: its equality with begin() and
\* end(), and how *, ++, -- and erase end on it
VObserve(W, it) ==
    [eqBegin |-> VitEq(it, Vbegin(W, "a")),
     eqEnd   |-> VitEq(it, Vend(W, "a").it),
     deref   |-> Outcome(VitDeref(W, it).exc, VitDeref(W, it).ub),
     inc     |-> Outcome(VitInc(W, it).exc, VitInc(W, it).ub),
     dec     |-> Outcome(VitDec(W, it).exc, VitDec(W, it).ub),
     erase   |-> Outcome(Verase(W, "a", it).exc, Verase(W, "a", it).W.ub)]

\* the same of a cursor of LinkedList a
LObserve(W, it) ==
    [eqBegin |-> LitEq(it, Lbegin(W, "a")),
     eqEnd   |-> LitEq(it, Lend(W, "a")),
     deref   |-> Outcome(LitDeref(W, it).exc, LitDeref(W, it).ub),
     inc     |-> Outcome(LitInc(W, it).exc, LitInc(W, it).ub),
     dec     |-> Outcome(LitDec(W, it).exc, LitDec(W, it).ub),
     erase   |-> Outcome(Lerase(W, "a", it).exc, Lerase(W, "a", it).W.ub)]

(* C25: offset arithmetic agrees with stepping.  For a cursor it at index i
   of a container that is not changed and 0 <= d <= size - i, it + d cannot
   be told from it after d times ++: equality with begin() and end(), and
   success or out-of-range failure of *, ++, -- and erase are the same; so
   for it - d and d times --, 0 <= d <= i. *)
C25_OffsetAgreesWithStepping ==
    (status = "run" /\ HasCur(cur) /\ Exists("a")) =>
        IF kind = "vector"
        THEN (cur.cur.buf = vec["a"].elements /\ cur.cur.off \in 0..Size("a")) =>
                \A d \in 0..MaxOffset :
                    /\ d <= Size("a") - cur.cur.off =>
                          VObserve(VW, VitPlus(cur, d)) = VObserve(VW, VStepsLoop(VW, cur, d).it)
                    /\ d <= cur.cur.off =>
                          VObserve(VW, VitMinus(cur, d)) = VObserve(VW, VStepsBackLoop(VW, cur, d).it)
        ELSE \A d \in 0..MaxOffset :
                /\ LStepsLoop(LW, cur, d).exc = "none" =>
                      LObserve(LW, LitPlus(LW, cur, d).it) = LObserve(LW, LStepsLoop(LW, cur, d).it)
                /\ LStepsBackLoop(LW, cur, d).exc = "none" =>
                      LObserve(LW, LitMinus(LW, cur, d).it) = LObserve(LW, LStepsBackLoop(LW, cur, d).it)

====
